---- MODULE Spec2Model ----
(***************************************************************************)
(* Payment reconciliation core of the bond repository: the Payme JSON-RPC  *)
(* merchant callbacks, the Click Prepare/Complete callbacks and the two    *)
(* order-initiation endpoints, over the Order and Participant tables.      *)
(* Every handler is one operator XxxCall(args): the response it returns     *)
(* and the tables as it leaves them, computed from the tables as it finds   *)
(* them; the action Xxx(args) commits those tables in one step.             *)
(***************************************************************************)
EXTENDS Integers, Sequences, FiniteSets

\* ------------------------------------------------------------------ bounds
\* Orders ever created (ids 1..MaxOrders).
MaxOrders == 2
\* Orders ever created where two buyers initiate (ids 1..MaxInitiated).
MaxInitiated == 3
\* Wall clock range, in milliseconds since the epoch: 1..MaxTime.
MaxTime == 2

\* ------------------------------------------------------- program constants
ERROR_INTERNAL_SERVER == -32400
ERROR_INSUFFICIENT_PRIVILEGE == -32504
ERROR_INVALID_JSON_RPC_OBJECT == -32600
ERROR_METHOD_NOT_FOUND == -32601
ERROR_INVALID_PARAMS == -32602
ERROR_INVALID_AMOUNT == -31001
ERROR_ORDER_NOT_FOUND == -31050
ERROR_ORDER_ALREADY_PAID == -31051
ERROR_TRANSACTION_NOT_FOUND == -31003

CLICK_ERROR_SUCCESS == 0
CLICK_ERROR_SIGN_CHECK_FAILED == -1
CLICK_ERROR_INVALID_AMOUNT == -2
CLICK_ERROR_ACTION_NOT_FOUND == -3
CLICK_ERROR_ALREADY_PAID == -4
CLICK_ERROR_USER_NOT_FOUND == -5
CLICK_ERROR_TRANSACTION_NOT_FOUND == -6
CLICK_ERROR_TRANSACTION_CANCELLED == -9

\* Python None / SQL NULL of a nullable numeric column or an absent parameter.
NULL == -99
\* NULL of the nullable payme_transaction_id column, and an absent or empty
\* "id" parameter.
NoTx == "none"
\* A parameter value that int() cannot convert, such as "abc".
NonNumeric == -98

\* ------------------------------------------------------------ input domains
Participants == {"p1"}
\* The participants where two buyers initiate.
Buyers == {"p1", "p2"}
\* Catalog: subjects of the active olympiad, in the catalog's order (by name).
Subjects == {1, 2}
\* Subject ids a selection may carry: the catalog's subjects and one that the
\* initiation's filter drops (inactive olympiad, or ticket_price 0).
SubjectIds == Subjects \cup {3}
\* settings.PAYME_ID, settings.CLICK_SERVICE_ID, settings.CLICK_MERCHANT_ID:
\* not configured (empty) or set.
\* The selections of subject ids the buyers send.
Selections == {{}, {3}, {1}, {1, 2, 3}}
MerchantIds == {"", "merchant"}
ServiceIds == {"", "service"}
\* Payme transaction ids carried by the provider's requests.
TxIds == {"X", "Y"}
\* Click transaction ids carried by the provider's requests.
ClickIds == {11}
\* The Click transaction id of a second payment attempt.
OtherClickIds == {12}
\* "time" of CreateTransaction: absent (the handler takes the clock) or zero.
CreateTimes == {NULL, 0}
\* "reason" of CancelTransaction: absent or a provider reason code.
Reasons == {NULL, 4}
\* Amounts in tiyin carried by Payme requests.
TiyinAmounts == {100, 200}
\* "amount" of a Payme request as the JSON number it is, in tenths of a tiyin:
\* 1000 is 100, 1005 is 100.5, 2000 is 200.
JsonAmounts == {1000, 1005, 2000}
\* "from" and "to" of GetStatement: absent or a time in ms.
StatementTimes == {NULL} \cup (0..MaxTime)
\* Amounts in sum carried by Click requests.
SumAmounts == {1, 2}
\* Order ids carried by requests: the rows that may exist.
OrderIds == 1..MaxOrders
\* merchant_prepare_id of a Click Complete: absent (0) or an order id.
PrepareIds == 0..MaxOrders

\* settings.PAYME_KEY: not configured (empty) or the shared secret.
PaymeKeys == {"", "secret"}
\* The Basic credentials of a Payme request: none, or username and password.
NoCredentials == [username |-> "", password |-> ""]
Credentials ==
    {NoCredentials} \cup
    {[username |-> "Paycom", password |-> "secret"],
     [username |-> "Paycom", password |-> "wrong"],
     [username |-> "Other", password |-> "secret"]}
\* "method" of a Payme request.
PaymeMethods ==
    {"CheckPerformTransaction", "CreateTransaction", "PerformTransaction",
     "CancelTransaction", "CheckTransaction", "GetStatement"}
\* "params" of a Payme request.
PaymeParams ==
    [order_id : {1}, amount : {1000}, id : TxIds, time : {NULL},
     reason : {NULL}, from : {0}, to : {MaxTime}]

VARIABLES
    orders,        \* the Order table: a sequence, orders[i] is the row with id i
    participants,  \* the Participant table: is_paid, paid_at per participant
    now,           \* the wall clock (ms)
    inflight,      \* per worker: the request it is serving, step by step
    base           \* the tables when the first in-flight request started

vars == <<orders, participants, now, inflight, base>>

\* ------------------------------------------------------------------ helpers
\* Python's  v or d  on an int-or-None value.
Or(v, d) == IF v = NULL \/ v = 0 THEN d ELSE v

Abs(n) == IF n < 0 THEN -n ELSE n

\* Subject.ticket_price of the catalog's subjects, in sum.
TicketPrice(s) == 1

\* Subject.objects.filter(id__in=subject_ids, olympiad__is_active=True,
\* ticket_price__gt=0): the selected subjects an order is created for.
ValidSubjects(sel) == sel \cap Subjects

RECURSIVE SumPrices(_)
SumPrices(S) ==
    IF S = {} THEN 0
    ELSE LET s == CHOOSE t \in S : TRUE IN TicketPrice(s) + SumPrices(S \ {s})

\* The subjects of a selection in catalog order.
RECURSIVE SubjectList(_)
SubjectList(S) ==
    IF S = {} THEN <<>>
    ELSE LET s == CHOOSE t \in S : \A u \in S : t <= u
         IN <<s>> \o SubjectList(S \ {s})

NewOrder(p, amount, method) ==
    [ participant |-> p,
      total_amount |-> amount,
      status |-> "pending",
      payment_method |-> method,
      payme_transaction_id |-> NoTx,
      payme_create_time |-> NULL,
      payme_perform_time |-> NULL,
      payme_cancel_time |-> NULL,
      payme_state |-> NULL,
      payme_cancel_reason |-> NULL,
      click_trans_id |-> NULL,
      click_prepare_id |-> NULL ]

\* A response: code 0 is success, the other fields are NULL where the
\* response does not carry them.
NoResp ==
    [ code |-> 0, note |-> "", order |-> NULL, amount |-> NULL,
      state |-> NULL, create_time |-> NULL, perform_time |-> NULL,
      cancel_time |-> NULL, prepare_id |-> NULL, reason |-> NULL,
      allow |-> FALSE, transactions |-> {} ]

\* A handler's outcome: its response and the tables as it leaves them.
Outcome(resp, os, ps) == [result |-> resp, orders |-> os, participants |-> ps]

\* A handler that returns without writing.
Reply(resp) == Outcome(resp, orders, participants)

Fault(code, note) == Reply([NoResp EXCEPT !.code = code, !.note = note])

\* total_amount is kept in sum, Payme speaks tiyin.
ExpectedAmountTiyin(o) == o.total_amount * 100

\* Order.objects.filter(payme_transaction_id=x).first(): Meta.ordering is
\* -created_at, so the most recently created matching row; 0 when none.
FindByTx(x) ==
    LET M == {i \in DOMAIN orders : orders[i].payme_transaction_id = x}
    IN IF M = {} THEN 0 ELSE CHOOSE i \in M : \A j \in M : j <= i

\* ------------------------------------------------------ requests in flight
\* Workers that serve callbacks concurrently.
Procs == {"a", "b"}

\* The callbacks served step by step: Payme Create, Perform and Cancel, Click
\* Prepare and Complete, all on the order with id 1, with valid credentials,
\* signature and amount.
ConcRequests ==
    {[op |-> "Create", x |-> x, error |-> 0] : x \in TxIds} \cup
    {[op |-> "Perform", x |-> "X", error |-> 0],
     [op |-> "Cancel", x |-> "X", error |-> 0],
     [op |-> "Prepare", x |-> NoTx, error |-> 0]} \cup
    {[op |-> "Complete", x |-> NoTx, error |-> e] : e \in {0, -1}}

NoRequest == [op |-> "", x |-> NoTx, error |-> 0]

\* A worker that serves nothing.
Idle == [pc |-> "idle", req |-> NoRequest]

\* No request has been in flight yet.
NoBase == [set |-> FALSE]

TypeOK ==
    /\ Len(orders) <= MaxOrders
    /\ now \in 1..MaxTime
    /\ \A p \in Participants : participants[p].is_paid \in BOOLEAN
    /\ \A pr \in Procs : inflight[pr].pc \in {"idle", "locked", "read", "done"}

Init ==
    /\ orders = <<>>
    /\ participants = [p \in Participants |-> [is_paid |-> FALSE, paid_at |-> NULL]]
    /\ now = 1
    /\ inflight = [pr \in Procs |-> Idle]
    /\ base = NoBase

\* ------------------------------------------------------------------- clock
Tick ==
    /\ now < MaxTime
    /\ now' = now + 1
    /\ UNCHANGED <<orders, participants, inflight, base>>

\* -------------------------------------------------------- order initiation
\* Mutant of SupersedePending: the pending orders of every buyer are cancelled.
SupersedePendingOfAll(p) ==
    [i \in DOMAIN orders |->
        IF orders[i].status = "pending"
        THEN [orders[i] EXCEPT !.status = "cancelled"]
        ELSE orders[i]]

\* Order.objects.filter(participant=p, status="pending").update(status="cancelled")
SupersedePending(p) ==
    [i \in DOMAIN orders |->
        IF orders[i].participant = p /\ orders[i].status = "pending"
        THEN [orders[i] EXCEPT !.status = "cancelled"]
        ELSE orders[i]]

\* Payme initiation: the first order carries the total of the selection, the
\* other orders their own subject's price.
PaymeOrderAmounts(sel) ==
    LET L == SubjectList(sel)
    IN [k \in 1..Len(L) |-> IF k = 1 THEN SumPrices(sel) ELSE TicketPrice(L[k])]

\* Click initiation: every order carries its own subject's price.
ClickOrderAmounts(sel) ==
    LET L == SubjectList(sel)
    IN [k \in 1..Len(L) |-> TicketPrice(L[k])]

InitiatePaymentCall(p, sel) ==
    IF participants[p].is_paid THEN Fault(400, "Already paid")
    ELSE IF sel = {} THEN Fault(400, "No subjects selected")
    ELSE IF ValidSubjects(sel) = {} THEN Fault(404, "Subjects not found")
    ELSE
        LET amounts == PaymeOrderAmounts(ValidSubjects(sel))
            created == [k \in 1..Len(amounts) |-> NewOrder(p, amounts[k], "payme")]
        IN Outcome([NoResp EXCEPT !.order = Len(orders) + 1,
                                  !.amount = SumPrices(ValidSubjects(sel)) * 100],
                   SupersedePending(p) \o created, participants)

InitiatePayment(p, sel) ==
    LET call == InitiatePaymentCall(p, sel) IN
    /\ Len(orders) + Cardinality(sel) <= MaxOrders
    /\ orders' = call.orders
    /\ participants' = call.participants
    /\ UNCHANGED <<now, inflight, base>>

InitiateClickPaymentCall(p, sel) ==
    IF participants[p].is_paid THEN Fault(400, "Already paid")
    ELSE IF sel = {} THEN Fault(400, "No subjects selected")
    ELSE IF ValidSubjects(sel) = {} THEN Fault(404, "Subjects not found")
    ELSE
        LET amounts == ClickOrderAmounts(ValidSubjects(sel))
            created == [k \in 1..Len(amounts) |-> NewOrder(p, amounts[k], "click")]
        IN Outcome([NoResp EXCEPT !.order = Len(orders) + 1,
                                  !.amount = SumPrices(ValidSubjects(sel))],
                   SupersedePending(p) \o created, participants)

InitiateClickPayment(p, sel) ==
    LET call == InitiateClickPaymentCall(p, sel) IN
    /\ Len(orders) + Cardinality(sel) <= MaxOrders
    /\ orders' = call.orders
    /\ participants' = call.participants
    /\ UNCHANGED <<now, inflight, base>>

\* ------------------------------------------------------------- pay links
\* What a link generator gives: the link's parameters, or RuntimeError raised.
NoLink == [raised |-> TRUE, ids |-> <<>>, order |-> NULL, amount |-> NULL]

\* generate_pay_link: m=<PAYME_ID>;ac.order_id=<order_id>;a=<amount_tiyin>.
GeneratePayLink(payme_id, order_id, amount_tiyin) ==
    IF payme_id = "" THEN NoLink
    ELSE [raised |-> FALSE, ids |-> <<payme_id>>, order |-> order_id,
          amount |-> amount_tiyin]

\* generate_click_pay_link: service_id, merchant_id, amount and
\* transaction_param of the query string; only service_id is tested.
GenerateClickPayLink(service_id, merchant_id, order_id, amount) ==
    IF service_id = "" THEN NoLink
    ELSE [raised |-> FALSE, ids |-> <<service_id, merchant_id>>, order |-> order_id,
          amount |-> amount]

\* What the initiation endpoints answer: the HTTP status, and the pay-link of
\* a 200.
Answer(status, link) == [status |-> status, pay_url |-> link]

\* post up to its return: the orders are written in autocommit before the
\* link is generated, so a RuntimeError of the generator (answered 500) leaves
\* them written.
LinkAnswer(call, link) ==
    IF call.result.code # 0 THEN Outcome(Answer(call.result.code, NoLink), call.orders,
                                         call.participants)
    ELSE IF link.raised THEN Outcome(Answer(500, NoLink), call.orders, call.participants)
    ELSE Outcome(Answer(200, link), call.orders, call.participants)

InitiatePaymentPostCall(payme_id, p, sel) ==
    LET call == InitiatePaymentCall(p, sel)
    IN LinkAnswer(call, GeneratePayLink(payme_id, call.result.order, call.result.amount))

InitiatePaymentPost(payme_id, p, sel) ==
    LET call == InitiatePaymentPostCall(payme_id, p, sel) IN
    /\ Len(orders) + Cardinality(ValidSubjects(sel)) <= MaxInitiated
    /\ orders' = call.orders
    /\ participants' = call.participants
    /\ UNCHANGED <<now, inflight, base>>

InitiateClickPaymentPostCall(service_id, merchant_id, p, sel) ==
    LET call == InitiateClickPaymentCall(p, sel)
    IN LinkAnswer(call, GenerateClickPayLink(service_id, merchant_id,
                                             call.result.order, call.result.amount))

InitiateClickPaymentPost(service_id, merchant_id, p, sel) ==
    LET call == InitiateClickPaymentPostCall(service_id, merchant_id, p, sel) IN
    /\ Len(orders) + Cardinality(ValidSubjects(sel)) <= MaxInitiated
    /\ orders' = call.orders
    /\ participants' = call.participants
    /\ UNCHANGED <<now, inflight, base>>

\* ------------------------------------------------------ Payme: CheckPerform
\* _get_amount_tiyin: int(amount) of a JSON number drops its fraction; None
\* when the parameter is absent.
GetAmountTiyin(amount) == IF amount = NULL THEN NULL ELSE amount \div 10

CheckPerformTransactionCall(id, amount_tiyin) ==
    IF id = NULL THEN Fault(ERROR_INVALID_PARAMS, "Invalid Params")
    ELSE IF amount_tiyin = NULL THEN Fault(ERROR_INVALID_PARAMS, "Invalid Params")
    ELSE IF id \notin DOMAIN orders
    THEN Fault(ERROR_ORDER_NOT_FOUND, "Order not found")
    ELSE LET order == orders[id] IN
    IF order.status = "paid"
    THEN Fault(ERROR_ORDER_ALREADY_PAID, "Order already paid")
    ELSE IF order.status = "cancelled"
    THEN Fault(ERROR_ORDER_NOT_FOUND, "Order is blocked")
    ELSE IF amount_tiyin # ExpectedAmountTiyin(order)
    THEN Fault(ERROR_INVALID_AMOUNT, "Invalid amount")
    ELSE Reply([NoResp EXCEPT !.allow = TRUE])

CheckPerformTransaction(id, amount) ==
    LET call == CheckPerformTransactionCall(id, GetAmountTiyin(amount)) IN
    /\ orders' = call.orders
    /\ participants' = call.participants
    /\ UNCHANGED <<now, inflight, base>>

\* ------------------------------------------------------------ Payme: Create
\* The replay branch: the stored create_time and state, as the code reads them.
StoredCreateTime(o, create_time) == Or(o.payme_create_time, create_time)

StoredCreateState(o) == Or(o.payme_state, 1)

\* Mutant of BindTransaction: the transaction id is not stored.
BindTransactionUnstored(o, x, create_time) ==
    [o EXCEPT !.payme_create_time = create_time, !.payme_state = 1]

\* The order row after a first CreateTransaction.
BindTransaction(o, x, create_time) ==
    [o EXCEPT !.payme_transaction_id = x,
              !.payme_create_time = create_time,
              !.payme_state = 1]

\* Mutant of HasTransaction: the bound-transaction test is skipped.
HasTransactionNever(o) == FALSE

\* if order.payme_transaction_id: the order already has a transaction.
HasTransaction(o) == o.payme_transaction_id # NoTx

\* int(v) raises ValueError; post answers the exception with -32400 and the
\* atomic block is rolled back.
IntRaises(v) == v = NonNumeric

CreateTransactionCall(id, amount, x, time) ==
    LET create_time == IF time = NULL THEN now ELSE time
    IN  IF id = NULL \/ amount = NULL \/ x = NoTx
        THEN Fault(ERROR_INVALID_PARAMS, "Invalid Params")
        ELSE IF id \notin DOMAIN orders
        THEN Fault(ERROR_ORDER_NOT_FOUND, "Order not found")
        ELSE LET order == orders[id] IN
        IF amount # ExpectedAmountTiyin(order)
        THEN Fault(ERROR_INVALID_AMOUNT, "Invalid amount")
        ELSE IF order.status = "paid"
        THEN Fault(ERROR_ORDER_ALREADY_PAID, "Order already paid")
        ELSE IF order.status = "cancelled"
        THEN Fault(ERROR_ORDER_NOT_FOUND, "Order is blocked")
        ELSE IF HasTransaction(order)
        THEN IF order.payme_transaction_id = x
             THEN IF IntRaises(StoredCreateTime(order, create_time))
                  THEN Fault(ERROR_INTERNAL_SERVER, "Internal server error")
                  ELSE Reply([NoResp EXCEPT
                            !.create_time = StoredCreateTime(order, create_time),
                            !.state = StoredCreateState(order)])
             ELSE Fault(ERROR_ORDER_NOT_FOUND, "Order is busy")
        ELSE IF IntRaises(create_time)
        THEN Fault(ERROR_INTERNAL_SERVER, "Internal server error")
        ELSE Outcome([NoResp EXCEPT !.create_time = create_time, !.state = 1],
                     [orders EXCEPT ![id] = BindTransaction(order, x, create_time)],
                     participants)

CreateTransaction(id, amount, x, time) ==
    LET call == CreateTransactionCall(id, amount, x, time) IN
    /\ orders' = call.orders
    /\ participants' = call.participants
    /\ UNCHANGED <<now, inflight, base>>

\* ----------------------------------------------------------- Payme: Perform
\* The order row after a first PerformTransaction at time t.
PerformOrder(o, t) ==
    [o EXCEPT !.status = "paid", !.payme_state = 2, !.payme_perform_time = t]

\* Mutant of MarkPaid: the flag is set, paid_at is not stamped.
MarkPaidFlagOnly(p, t) == [p EXCEPT !.is_paid = TRUE]

\* The participant row after a payment at time t.
MarkPaid(p, t) == [p EXCEPT !.is_paid = TRUE, !.paid_at = t]

\* Mutant of IsCancelled: only a cancellation after performing counts.
IsCancelledAfterPerformOnly(o) == o.payme_state = -2

\* Mutant of IsCancelled: the order's status is not consulted.
IsCancelledByStateOnly(o) == o.payme_state \in {-1, -2}

\* Perform's test for a cancelled transaction.
IsCancelled(o) == o.payme_state \in {-1, -2} \/ o.status = "cancelled"

PerformTransactionCall(x) ==
    LET id == FindByTx(x) IN
    IF x = NoTx
    THEN Fault(ERROR_INVALID_PARAMS, "Invalid Params")
    ELSE IF id = 0
    THEN Fault(ERROR_TRANSACTION_NOT_FOUND, "Transaction not found")
    ELSE LET order == orders[id] IN
    IF IsCancelled(order)
    THEN Reply([NoResp EXCEPT !.cancel_time = Or(order.payme_cancel_time, 0),
                              !.state = order.payme_state])
    ELSE IF order.payme_state = 2 \/ order.status = "paid"
    THEN Reply([NoResp EXCEPT !.perform_time = Or(order.payme_perform_time, 0),
                              !.state = 2])
    ELSE Outcome([NoResp EXCEPT !.perform_time = now, !.state = 2],
                 [orders EXCEPT ![id] = PerformOrder(order, now)],
                 [participants EXCEPT
                    ![order.participant] = MarkPaid(participants[order.participant], now)])

PerformTransaction(x) ==
    LET call == PerformTransactionCall(x) IN
    /\ orders' = call.orders
    /\ participants' = call.participants
    /\ UNCHANGED <<now, inflight, base>>

\* ------------------------------------------------------------ Payme: Cancel
WasPerformed(o) ==
    \/ Or(o.payme_perform_time, 0) > 0
    \/ o.payme_state = 2
    \/ o.status = "paid"

\* Mutant of CancelState: every cancellation is taken as one before performing.
CancelStateBeforePerform(was_performed) == -1

CancelState(was_performed) == IF was_performed THEN -2 ELSE -1

DefaultReason(was_performed) == IF was_performed THEN 5 ELSE 3

\* The already-cancelled branch: the row after the one-time normalisation.
NormalizeCancelled(o, reason, t) ==
    IF Or(o.payme_state, 0) # CancelState(WasPerformed(o))
    THEN [o EXCEPT
            !.payme_cancel_time = IF Or(@, 0) = 0 THEN t ELSE @,
            !.payme_state = CancelState(WasPerformed(o)),
            !.payme_cancel_reason =
                IF @ = NULL
                THEN (IF reason # NULL THEN reason ELSE DefaultReason(WasPerformed(o)))
                ELSE @]
    ELSE o

\* Mutant of CancelOrder: perform_time is never zeroed.
CancelOrderKeepingPerformTime(o, reason, t) ==
    [o EXCEPT
        !.status = "cancelled",
        !.payme_state = CancelState(WasPerformed(o)),
        !.payme_cancel_time = t,
        !.payme_cancel_reason =
            IF reason = NULL THEN DefaultReason(WasPerformed(o)) ELSE reason]

\* The row after a first cancellation at time t.
CancelOrder(o, reason, t) ==
    [o EXCEPT
        !.status = "cancelled",
        !.payme_state = CancelState(WasPerformed(o)),
        !.payme_cancel_time = t,
        !.payme_cancel_reason =
            IF reason = NULL THEN DefaultReason(WasPerformed(o)) ELSE reason,
        !.payme_perform_time = IF WasPerformed(o) THEN @ ELSE 0]

\* The participant row after the reversal of a performed payment.
MarkUnpaid(p) == [p EXCEPT !.is_paid = FALSE, !.paid_at = NULL]

CancelTransactionCall(x, reason) ==
    LET id == FindByTx(x) IN
    IF x = NoTx
    THEN Fault(ERROR_INVALID_PARAMS, "Invalid Params")
    ELSE IF id = 0
    THEN Fault(ERROR_TRANSACTION_NOT_FOUND, "Transaction not found")
    ELSE LET order == orders[id] IN
    IF order.status = "cancelled" \/ order.payme_state \in {-1, -2}
    THEN LET healed == NormalizeCancelled(order, reason, now) IN
         IF IntRaises(healed.payme_cancel_reason)
         THEN Fault(ERROR_INTERNAL_SERVER, "Internal server error")
         ELSE
         Outcome([NoResp EXCEPT !.cancel_time = Or(healed.payme_cancel_time, 0),
                                !.state = healed.payme_state],
                 [orders EXCEPT ![id] = healed], participants)
    ELSE IF IntRaises(reason)
    THEN Fault(ERROR_INTERNAL_SERVER, "Internal server error")
    ELSE Outcome([NoResp EXCEPT !.cancel_time = now,
                                !.state = CancelState(WasPerformed(order))],
                 [orders EXCEPT ![id] = CancelOrder(order, reason, now)],
                 IF WasPerformed(order)
                 THEN [participants EXCEPT
                        ![order.participant] = MarkUnpaid(participants[order.participant])]
                 ELSE participants)

CancelTransaction(x, reason) ==
    LET call == CancelTransactionCall(x, reason) IN
    /\ orders' = call.orders
    /\ participants' = call.participants
    /\ UNCHANGED <<now, inflight, base>>

\* ------------------------------------------------------------- Payme: Check
\* Mutant of CheckPerformTime: the stored perform_time is reported as it is.
CheckPerformTimeStored(state, perform_time_db, create_time) == perform_time_db

\* The perform_time Check reports for a state.
CheckPerformTime(state, perform_time_db, create_time) ==
    IF state = -1 THEN 0
    ELSE IF state \in {-2, 2}
    THEN (IF perform_time_db > 0 THEN perform_time_db ELSE create_time)
    ELSE 0

\* The create_time Check reports: the stored one, else the row's created_at.
CheckCreateTime(o, created_at) ==
    IF Or(o.payme_create_time, 0) <= 0 THEN created_at ELSE o.payme_create_time

\* The cancel_time Check reports: the stored one, else the row's updated_at
\* in a cancelled state.
CheckCancelTime(o, state, updated_at) ==
    IF state \in {-1, -2} /\ Or(o.payme_cancel_time, 0) <= 0
    THEN updated_at
    ELSE Or(o.payme_cancel_time, 0)

\* Mutant of CheckedRow: the backfilled times are stored on the row.
CheckedRowBackfilled(o, create_time, cancel_time) ==
    [o EXCEPT !.payme_create_time = create_time, !.payme_cancel_time = cancel_time]

\* The row as Check leaves it: create_time and cancel_time are locals of the
\* handler, which never calls save().
CheckedRow(o, create_time, cancel_time) == o

\* The rows do not keep created_at and updated_at (auto_now_add, auto_now):
\* Check reads them as clock values not after now, given as created_at and
\* updated_at.
CheckTransactionCall(x, created_at, updated_at) ==
    LET id == FindByTx(x) IN
    IF x = NoTx
    THEN Fault(ERROR_INVALID_PARAMS, "Invalid Params")
    ELSE IF id = 0
    THEN Fault(ERROR_TRANSACTION_NOT_FOUND, "Transaction not found")
    ELSE LET order == orders[id]
             state == Or(order.payme_state, 1)
             create_time == CheckCreateTime(order, created_at)
             cancel_time == CheckCancelTime(order, state, updated_at)
         IN Outcome([NoResp EXCEPT
                !.create_time = create_time,
                !.perform_time =
                    CheckPerformTime(state, Or(order.payme_perform_time, 0), create_time),
                !.cancel_time = IF state \in {-1, -2} THEN cancel_time ELSE 0,
                !.state = state,
                !.reason = IF state \in {-1, -2} THEN order.payme_cancel_reason
                                                 ELSE NULL],
                [orders EXCEPT ![id] = CheckedRow(order, create_time, cancel_time)],
                participants)

CheckTransaction(x, created_at, updated_at) ==
    LET call == CheckTransactionCall(x, created_at, updated_at) IN
    /\ orders' = call.orders
    /\ participants' = call.participants
    /\ UNCHANGED <<now, inflight, base>>

\* --------------------------------------------------------- Payme: Statement
\* Mutant of InStatement: the upper bound of the range is excluded.
InStatementBelowTo(o, from_ts, to_ts) ==
    /\ o.payme_transaction_id # NoTx
    /\ o.payme_create_time # NULL
    /\ o.payme_create_time >= from_ts
    /\ o.payme_create_time < to_ts

\* The queryset filter of GetStatement.
InStatement(o, from_ts, to_ts) ==
    /\ o.payme_transaction_id # NoTx
    /\ o.payme_create_time # NULL
    /\ o.payme_create_time >= from_ts
    /\ o.payme_create_time <= to_ts

\* One entry of the statement.
StatementEntry(i) ==
    LET o == orders[i]
        perform_time == Or(o.payme_perform_time, 0)
        state == Or(o.payme_state, 1)
    IN [ order |-> i,
         id |-> o.payme_transaction_id,
         amount |-> ExpectedAmountTiyin(o),
         create_time |-> Or(o.payme_create_time, 0),
         perform_time |-> IF perform_time > 0 THEN perform_time ELSE 0,
         cancel_time |-> IF state \in {-1, -2} THEN Or(o.payme_cancel_time, 0) ELSE 0,
         state |-> state,
         reason |-> IF state \in {-1, -2} THEN o.payme_cancel_reason ELSE NULL ]

GetStatementCall(from_ts, to_ts) ==
    IF from_ts = NULL \/ to_ts = NULL
    THEN Fault(ERROR_INVALID_PARAMS, "Invalid Params")
    ELSE IF from_ts > to_ts
    THEN Fault(ERROR_INVALID_PARAMS, "Invalid Params")
    ELSE Reply([NoResp EXCEPT !.transactions =
                    {StatementEntry(i) : i \in
                        {j \in DOMAIN orders : InStatement(orders[j], from_ts, to_ts)}}])

GetStatement(from_ts, to_ts) ==
    LET call == GetStatementCall(from_ts, to_ts) IN
    /\ orders' = call.orders
    /\ participants' = call.participants
    /\ UNCHANGED <<now, inflight, base>>

\* ------------------------------------------------------ Payme: dispatcher
\* Mutant of VerifyAuth: only the username is compared.
VerifyAuthUsernameOnly(cred, key) == cred # NoCredentials /\ cred.username = "Paycom"

\* _verify_auth: Basic credentials Paycom:<PAYME_KEY>.
VerifyAuth(cred, key) ==
    /\ cred # NoCredentials
    /\ cred.username = "Paycom"
    /\ cred.password = key

\* The handler a method name selects, applied to the request's params.
Dispatch(method, params) ==
    CASE method = "CheckPerformTransaction" ->
            CheckPerformTransactionCall(params.order_id, GetAmountTiyin(params.amount))
      [] method = "CreateTransaction" ->
            CreateTransactionCall(params.order_id, GetAmountTiyin(params.amount),
                                  params.id, params.time)
      [] method = "PerformTransaction" -> PerformTransactionCall(params.id)
      [] method = "CancelTransaction" -> CancelTransactionCall(params.id, params.reason)
      [] method = "CheckTransaction" -> CheckTransactionCall(params.id, now, now)
      [] method = "GetStatement" -> GetStatementCall(params.from, params.to)

\* Where a database error is raised inside a handler's atomic block: at the
\* order's save, or at the buyer's save that follows it.
RaisePoints == {"order_save", "buyer_save"}

\* The handler, left alone, gets as far as the save at that point.
ReachesSave(method, params, point) ==
    LET id == IF method = "CreateTransaction" THEN params.order_id
              ELSE FindByTx(params.id)
    IN  /\ method \in {"CreateTransaction", "PerformTransaction", "CancelTransaction"}
        /\ id \in DOMAIN orders
        /\ Dispatch(method, params).orders # orders
        /\ point = "buyer_save" =>
                \/ method = "PerformTransaction"
                \/ /\ method = "CancelTransaction"
                   /\ orders[id].status # "cancelled"
                   /\ WasPerformed(orders[id])

\* The tables at the moment of the exception: at the buyer's save the order
\* is written and the buyer is not.
WrittenBefore(method, params, point) ==
    IF point = "buyer_save" THEN Dispatch(method, params).orders ELSE orders

\* Mutant of RolledBack: the writes made before the exception stay.
RolledBackNothing(before, written) == written

\* transaction.atomic(): an exception that leaves the block undoes the
\* writes made inside it.
RolledBack(before, written) == before

\* post, when the handler raises: the except clause answers -32400.
PaymeRaisingCall(method, params, point) ==
    Outcome([NoResp EXCEPT !.code = ERROR_INTERNAL_SERVER,
                           !.note = "Internal server error"],
            RolledBack(orders, WrittenBefore(method, params, point)),
            RolledBack(participants, participants))

PaymeRaise(method, params, point) ==
    LET call == PaymeRaisingCall(method, params, point) IN
    /\ ReachesSave(method, params, point)
    /\ orders' = call.orders
    /\ participants' = call.participants
    /\ UNCHANGED <<now, inflight, base>>

\* post: body_ok says that the body parses to a non-empty JSON object.
PaymePostCall(body_ok, key, cred, method, params) ==
    IF ~body_ok
    THEN Fault(ERROR_INVALID_JSON_RPC_OBJECT, "Invalid JSON-RPC object")
    ELSE IF key = ""
    THEN Fault(ERROR_INSUFFICIENT_PRIVILEGE, "Unauthorized")
    ELSE IF ~VerifyAuth(cred, key)
    THEN Fault(ERROR_INSUFFICIENT_PRIVILEGE, "Unauthorized")
    ELSE IF method \notin PaymeMethods
    THEN Fault(ERROR_METHOD_NOT_FOUND, "Method not found")
    ELSE Dispatch(method, params)

PaymePost(body_ok, key, cred, method, params) ==
    LET call == PaymePostCall(body_ok, key, cred, method, params) IN
    /\ orders' = call.orders
    /\ participants' = call.participants
    /\ UNCHANGED <<now, inflight, base>>

\* ------------------------------------------------------------ Click callback
\* merchant_trans_id: int(merchant_trans_id) is the order id; NULL stands for
\* a value that does not parse.
ClickResponse(prepare_id, code, note) ==
    [NoResp EXCEPT !.prepare_id = prepare_id, !.code = code, !.note = note]

\* Mutant of ClickAmountOk: the amount is not compared.
ClickAmountAny(o, amount) == TRUE

\* abs(float(order.total_amount) - float(amount)) > 0.01 rejects the request.
ClickAmountOk(o, amount) == ~(Abs(o.total_amount - amount) * 100 > 1)

\* Mutant of PrepareOrder: the payment method is left as it was.
PrepareOrderKeepingMethod(o, id, click_trans_id) ==
    [o EXCEPT !.click_trans_id = click_trans_id, !.click_prepare_id = id]

\* The order row after a successful Prepare.
PrepareOrder(o, id, click_trans_id) ==
    [o EXCEPT !.click_trans_id = click_trans_id,
              !.click_prepare_id = id,
              !.payment_method = "click"]

\* Mutant of IsPaid: the Payme state is consulted instead of the status.
IsPaidByPayme(o) == o.payme_state = 2

\* The Click handlers' test for an order that is already paid.
IsPaid(o) == o.status = "paid"

HandlePrepare(id, click_trans_id) ==
    LET order == orders[id] IN
    IF IsPaid(order)
    THEN Reply(ClickResponse(id, CLICK_ERROR_ALREADY_PAID, "Already paid"))
    ELSE IF order.status = "cancelled"
    THEN Reply(ClickResponse(id, CLICK_ERROR_TRANSACTION_CANCELLED, "Order cancelled"))
    ELSE Outcome(ClickResponse(id, CLICK_ERROR_SUCCESS, "Success"),
                 [orders EXCEPT ![id] = PrepareOrder(order, id, click_trans_id)],
                 participants)

\* The order row after a successful Complete.
CompleteOrder(o) == [o EXCEPT !.status = "paid"]

\* Mutant of FailOrder: a paid order is cancelled too.
FailOrderAlways(o) == [o EXCEPT !.status = "cancelled"]

\* The order row after a Complete that reports a provider failure.
FailOrder(o) ==
    IF o.status # "paid" THEN [o EXCEPT !.status = "cancelled"] ELSE o

\* Mutant of PrepareIdMatches: the echoed prepare id is not compared.
PrepareIdAny(o, merchant_prepare_id) == TRUE

\* Mutant of PrepareIdMatches: an order without a stored prepare id passes.
PrepareIdOrUnset(o, merchant_prepare_id) ==
    o.click_prepare_id = merchant_prepare_id \/ o.click_prepare_id = NULL

\* Complete's test of the echoed prepare id against the stored one.
PrepareIdMatches(o, merchant_prepare_id) == o.click_prepare_id = merchant_prepare_id

HandleComplete(id, merchant_prepare_id, error) ==
    LET order == orders[id] IN
    IF error < 0
    THEN Outcome(ClickResponse(merchant_prepare_id, CLICK_ERROR_TRANSACTION_CANCELLED,
                               "Cancelled"),
                 [orders EXCEPT ![id] = FailOrder(order)], participants)
    ELSE IF IsPaid(order)
    THEN Reply(ClickResponse(merchant_prepare_id, CLICK_ERROR_ALREADY_PAID, "Already paid"))
    ELSE IF order.status = "cancelled"
    THEN Reply(ClickResponse(merchant_prepare_id, CLICK_ERROR_TRANSACTION_CANCELLED,
                             "Order cancelled"))
    ELSE IF ~PrepareIdMatches(order, merchant_prepare_id)
    THEN Reply(ClickResponse(merchant_prepare_id, CLICK_ERROR_TRANSACTION_NOT_FOUND,
                             "Prepare ID mismatch"))
    ELSE Outcome(ClickResponse(merchant_prepare_id, CLICK_ERROR_SUCCESS, "Success"),
                 [orders EXCEPT ![id] = CompleteOrder(order)],
                 [participants EXCEPT
                    ![order.participant] = MarkPaid(participants[order.participant], now)])

ClickCallbackCall(click_trans_id, id, amount, action, sign_ok, merchant_prepare_id, error) ==
    IF id = NULL
    THEN Reply(ClickResponse(0, CLICK_ERROR_USER_NOT_FOUND, "Invalid order ID"))
    ELSE IF ~sign_ok
    THEN Reply(ClickResponse(0, CLICK_ERROR_SIGN_CHECK_FAILED, "Invalid signature"))
    ELSE IF id \notin DOMAIN orders
    THEN Reply(ClickResponse(0, CLICK_ERROR_USER_NOT_FOUND, "Order not found"))
    ELSE IF ~ClickAmountOk(orders[id], amount)
    THEN Reply(ClickResponse(0, CLICK_ERROR_INVALID_AMOUNT, "Invalid amount"))
    ELSE IF action = 0 THEN HandlePrepare(id, click_trans_id)
    ELSE IF action = 1 THEN HandleComplete(id, merchant_prepare_id, error)
    ELSE Reply(ClickResponse(0, CLICK_ERROR_ACTION_NOT_FOUND, "Unknown action"))

ClickCallback(click_trans_id, id, amount, action, sign_ok, merchant_prepare_id, error) ==
    LET call == ClickCallbackCall(click_trans_id, id, amount, action, sign_ok,
                                  merchant_prepare_id, error) IN
    /\ orders' = call.orders
    /\ participants' = call.participants
    /\ UNCHANGED <<now, inflight, base>>

\* ------------------------------------------------ handlers, step by step
\* A handler body on the row it has read: its response, the row as it saves
\* it, and what it does to the buyer ("same", "paid" or "unpaid").
RowOutcome(resp, o, buyer) == [result |-> resp, order |-> o, buyer |-> buyer]

FaultResp(code, note) == [NoResp EXCEPT !.code = code, !.note = note]

\* _create_transaction inside its atomic block, on the locked row o.
CreateRow(o, amount, x, create_time) ==
    IF amount # ExpectedAmountTiyin(o)
    THEN RowOutcome(FaultResp(ERROR_INVALID_AMOUNT, "Invalid amount"), o, "same")
    ELSE IF o.status = "paid"
    THEN RowOutcome(FaultResp(ERROR_ORDER_ALREADY_PAID, "Order already paid"), o, "same")
    ELSE IF o.status = "cancelled"
    THEN RowOutcome(FaultResp(ERROR_ORDER_NOT_FOUND, "Order is blocked"), o, "same")
    ELSE IF HasTransaction(o)
    THEN IF o.payme_transaction_id = x
         THEN RowOutcome([NoResp EXCEPT
                            !.create_time = StoredCreateTime(o, create_time),
                            !.state = StoredCreateState(o)], o, "same")
         ELSE RowOutcome(FaultResp(ERROR_ORDER_NOT_FOUND, "Order is busy"), o, "same")
    ELSE RowOutcome([NoResp EXCEPT !.create_time = create_time, !.state = 1],
                    BindTransaction(o, x, create_time), "same")

\* _perform_transaction inside its atomic block, on the locked row o.
PerformRow(o, t) ==
    IF IsCancelled(o)
    THEN RowOutcome([NoResp EXCEPT !.cancel_time = Or(o.payme_cancel_time, 0),
                                   !.state = o.payme_state], o, "same")
    ELSE IF o.payme_state = 2 \/ o.status = "paid"
    THEN RowOutcome([NoResp EXCEPT !.perform_time = Or(o.payme_perform_time, 0),
                                   !.state = 2], o, "same")
    ELSE RowOutcome([NoResp EXCEPT !.perform_time = t, !.state = 2],
                    PerformOrder(o, t), "paid")

\* _cancel_transaction inside its atomic block, on the locked row o.
CancelRow(o, reason, t) ==
    IF o.status = "cancelled" \/ o.payme_state \in {-1, -2}
    THEN LET healed == NormalizeCancelled(o, reason, t) IN
         RowOutcome([NoResp EXCEPT !.cancel_time = Or(healed.payme_cancel_time, 0),
                                   !.state = healed.payme_state], healed, "same")
    ELSE RowOutcome([NoResp EXCEPT !.cancel_time = t,
                                   !.state = CancelState(WasPerformed(o))],
                    CancelOrder(o, reason, t),
                    IF WasPerformed(o) THEN "unpaid" ELSE "same")

\* _handle_prepare on the row o that post has read.
PrepareRow(o, id, click_trans_id) ==
    IF IsPaid(o)
    THEN RowOutcome(ClickResponse(id, CLICK_ERROR_ALREADY_PAID, "Already paid"), o, "same")
    ELSE IF o.status = "cancelled"
    THEN RowOutcome(ClickResponse(id, CLICK_ERROR_TRANSACTION_CANCELLED,
                                  "Order cancelled"), o, "same")
    ELSE RowOutcome(ClickResponse(id, CLICK_ERROR_SUCCESS, "Success"),
                    PrepareOrder(o, id, click_trans_id), "same")

\* _handle_complete on the row o that post has read.
CompleteRow(o, merchant_prepare_id, error) ==
    IF error < 0
    THEN RowOutcome(ClickResponse(merchant_prepare_id,
                                  CLICK_ERROR_TRANSACTION_CANCELLED, "Cancelled"),
                    FailOrder(o), "same")
    ELSE IF IsPaid(o)
    THEN RowOutcome(ClickResponse(merchant_prepare_id, CLICK_ERROR_ALREADY_PAID,
                                  "Already paid"), o, "same")
    ELSE IF o.status = "cancelled"
    THEN RowOutcome(ClickResponse(merchant_prepare_id,
                                  CLICK_ERROR_TRANSACTION_CANCELLED, "Order cancelled"),
                    o, "same")
    ELSE IF ~PrepareIdMatches(o, merchant_prepare_id)
    THEN RowOutcome(ClickResponse(merchant_prepare_id,
                                  CLICK_ERROR_TRANSACTION_NOT_FOUND, "Prepare ID mismatch"),
                    o, "same")
    ELSE RowOutcome(ClickResponse(merchant_prepare_id, CLICK_ERROR_SUCCESS, "Success"),
                    CompleteOrder(o), "paid")

\* The body of request req on the row o; create_time is taken at t0, before
\* the atomic block, the other timestamps at t.
RowHandler(req, o, t0, t) ==
    CASE req.op = "Create" -> CreateRow(o, ExpectedAmountTiyin(o), req.x, t0)
      [] req.op = "Perform" -> PerformRow(o, t)
      [] req.op = "Cancel" -> CancelRow(o, NULL, t)
      [] req.op = "Prepare" -> PrepareRow(o, 1, CHOOSE c \in ClickIds : TRUE)
      [] req.op = "Complete" -> CompleteRow(o, 1, req.error)

\* update_fields of the save the handler of req runs on the row o.
SavedFields(req, o) ==
    CASE req.op = "Create" ->
            {"payme_transaction_id", "payme_create_time", "payme_state"}
      [] req.op = "Perform" -> {"status", "payme_state", "payme_perform_time"}
      [] req.op = "Cancel" ->
            IF o.status = "cancelled" \/ o.payme_state \in {-1, -2}
            THEN {"payme_state", "payme_cancel_time", "payme_cancel_reason"}
            ELSE {"status", "payme_state", "payme_cancel_time",
                  "payme_cancel_reason", "payme_perform_time"}
      [] req.op = "Prepare" -> {"click_trans_id", "click_prepare_id", "payment_method"}
      [] req.op = "Complete" -> {"status"}

\* save(update_fields=fields): the stored row cur takes the listed fields of
\* the handler's object obj and keeps the others.
Save(cur, obj, fields) ==
    [f \in DOMAIN cur |-> IF f \in fields THEN obj[f] ELSE cur[f]]

\* The buyer row after the handler's participant write.
WriteBuyer(b, effect, t) ==
    IF effect = "paid" THEN MarkPaid(b, t)
    ELSE IF effect = "unpaid" THEN MarkUnpaid(b)
    ELSE b

\* Mutant of Locked: select_for_update takes no lock.
LockedNever(i) == FALSE

\* select_for_update: the row i is locked by a worker inside its atomic block.
Locked(i) == \E pr \in Procs : inflight[pr].pc = "locked" /\ inflight[pr].row = i

\* No request is in flight and none has been served step by step.
Quiet == \A pr \in Procs : inflight[pr].pc = "idle"

PaymeOps == {"Create", "Perform", "Cancel"}

ClickOps == {"Prepare", "Complete"}

\* The tables as the first in-flight request finds them.
BaseNow ==
    IF Quiet
    THEN [set |-> TRUE, order |-> orders[1],
          buyer |-> participants[orders[1].participant]]
    ELSE base

\* The worker has answered: its request, the time of its timestamps and its
\* response.
Done(pr, req, at, resp) ==
    [inflight EXCEPT ![pr] = [pc |-> "done", req |-> req, at |-> at, result |-> resp]]

\* The worker holds the row it has read (under the lock when pc is locked).
Holding(pr, pc, req, row) ==
    [inflight EXCEPT ![pr] =
        [pc |-> pc, req |-> req, row |-> row, snap |-> orders[row], at |-> now]]

\* A Payme handler enters its atomic block: select_for_update finds the row
\* and waits for its lock; without a row it answers at once.
PaymeBegin(pr, req) ==
    LET row == IF req.op = "Create" THEN 1 ELSE FindByTx(req.x) IN
    /\ inflight[pr].pc = "idle"
    /\ Len(orders) = 1
    /\ req.op \in PaymeOps
    /\ base' = BaseNow
    /\ IF row = 0
       THEN inflight' = Done(pr, req, now,
                             FaultResp(ERROR_TRANSACTION_NOT_FOUND, "Transaction not found"))
       ELSE /\ ~Locked(row)
            /\ inflight' = Holding(pr, "locked", req, row)
    /\ UNCHANGED <<orders, participants, now>>

\* The atomic block runs on the row read under the lock and commits: the
\* order write and the buyer write become visible together, the lock is
\* released.
PaymeCommit(pr) ==
    LET w == inflight[pr]
        out == RowHandler(w.req, w.snap, w.at, now)
        buyer == w.snap.participant
    IN
    /\ w.pc = "locked"
    /\ orders' = IF out.order = w.snap THEN orders
                 ELSE [orders EXCEPT ![w.row] =
                          Save(@, out.order, SavedFields(w.req, w.snap))]
    /\ participants' = [participants EXCEPT ![buyer] = WriteBuyer(@, out.buyer, now)]
    /\ inflight' = Done(pr, w.req, IF w.req.op = "Create" THEN w.at ELSE now, out.result)
    /\ UNCHANGED <<now, base>>

\* ClickCallbackView.post reads the order, without a lock.
ClickRead(pr, req) ==
    /\ inflight[pr].pc = "idle"
    /\ Len(orders) = 1
    /\ req.op \in ClickOps
    /\ base' = BaseNow
    /\ inflight' = Holding(pr, "read", req, 1)
    /\ UNCHANGED <<orders, participants, now>>

\* The Click handler decides on the row it has read and saves; the UPDATE
\* waits while another transaction holds the row's lock.
ClickWrite(pr) ==
    LET w == inflight[pr]
        out == RowHandler(w.req, w.snap, w.at, now)
        buyer == w.snap.participant
    IN
    /\ w.pc = "read"
    /\ out.order # w.snap => ~Locked(w.row)
    /\ orders' = IF out.order = w.snap THEN orders
                 ELSE [orders EXCEPT ![w.row] =
                          Save(@, out.order, SavedFields(w.req, w.snap))]
    /\ participants' = [participants EXCEPT ![buyer] = WriteBuyer(@, out.buyer, now)]
    /\ inflight' = Done(pr, w.req, now, out.result)
    /\ UNCHANGED <<now, base>>

\* ------------------------------------------------------------ specification
Next ==
    \/ Tick
    \/ \E p \in Participants, sel \in SUBSET Subjects : InitiatePayment(p, sel)
    \/ \E p \in Participants, sel \in SUBSET Subjects : InitiateClickPayment(p, sel)
    \/ \E body_ok \in BOOLEAN, key \in PaymeKeys,
          method \in {"PerformTransaction", "Unknown"} :
            PaymePost(body_ok, key, [username |-> "Paycom", password |-> "secret"],
                      method, CHOOSE q \in PaymeParams : q.id = "X")
    \/ \E method \in {"PerformTransaction", "CancelTransaction"},
          point \in RaisePoints :
            PaymeRaise(method, CHOOSE q \in PaymeParams : q.id = "X", point)
    \/ \E id \in {1, NULL}, a \in {1000, 1005, NULL} :
            CheckPerformTransaction(id, a)
    \/ \E id \in OrderIds, a \in JsonAmounts, x \in TxIds, t \in CreateTimes :
            CreateTransaction(id, GetAmountTiyin(a), x, t)
    \/ \E id \in {1, NULL}, a \in {1000, NULL}, x \in {"X", NoTx} :
            CreateTransaction(id, GetAmountTiyin(a), x, NonNumeric)
    \/ \E x \in TxIds \cup {NoTx} : PerformTransaction(x)
    \/ \E x \in TxIds, r \in Reasons : CancelTransaction(x, r)
    \/ \E x \in {"X", NoTx} : CancelTransaction(x, NonNumeric)
    \/ \E x \in TxIds, c \in 1..now : CheckTransaction(x, c, now)
    \/ CheckTransaction(NoTx, now, now)
    \/ \E f \in {NULL, 0, MaxTime}, t \in {NULL, 0, MaxTime} : GetStatement(f, t)
    \/ \E c \in ClickIds, id \in OrderIds, a \in SumAmounts :
            ClickCallback(c, id, a, 0, TRUE, 0, 0)
    \/ \E c \in ClickIds, id \in OrderIds, a \in SumAmounts, pid \in PrepareIds,
          e \in {0, -1} :
            ClickCallback(c, id, a, 1, TRUE, pid, e)
    \/ \E c \in ClickIds, id \in OrderIds \cup {NULL}, a \in SumAmounts,
          action \in {0, 1, 2} :
            ClickCallback(c, id, a, action, action = 2, 0, 0)

Spec == Init /\ [][Next]_vars

\* Concurrent callbacks on one order: the order is set up by whole handlers
\* while no request is in flight, then the workers serve one request each,
\* step by step.
ConcNext ==
    \/ Tick
    \/ Quiet /\ orders = <<>> /\ \E p \in Participants : InitiatePayment(p, {1})
    \/ Quiet /\ CreateTransaction(1, 100, "X", NULL)
    \/ Quiet /\ PerformTransaction("X")
    \/ Quiet /\ \E c \in ClickIds : ClickCallback(c, 1, 1, 0, TRUE, 0, 0)
    \/ \E pr \in Procs, req \in ConcRequests : PaymeBegin(pr, req)
    \/ \E pr \in Procs : PaymeCommit(pr)
    \/ \E pr \in Procs, req \in ConcRequests : ClickRead(pr, req)
    \/ \E pr \in Procs : ClickWrite(pr)

ConcSpec == Init /\ [][ConcNext]_vars

\* Two buyers and the merchant configuration: initiations of both providers
\* with any configuration, and the callbacks that take an order to paid and to
\* cancelled.
InitiationInit ==
    /\ orders = <<>>
    /\ participants = [p \in Buyers |-> [is_paid |-> FALSE, paid_at |-> NULL]]
    /\ now = 1
    /\ inflight = [pr \in Procs |-> Idle]
    /\ base = NoBase

InitiationNext ==
    \/ \E payme_id \in MerchantIds, p \in Buyers, sel \in Selections \ {{}} :
            InitiatePaymentPost(payme_id, p, sel)
    \/ \E service_id \in ServiceIds, merchant_id \in MerchantIds, p \in Buyers,
          sel \in Selections \ {{}} :
            /\ service_id # "" \/ merchant_id # ""
            /\ InitiateClickPaymentPost(service_id, merchant_id, p, sel)
    \/ \E id \in DOMAIN orders :
            CreateTransaction(id, ExpectedAmountTiyin(orders[id]), "X", NULL)
    \/ PerformTransaction("X")
    \/ CancelTransaction("X", NULL)
    \/ \E c \in ClickIds, id \in DOMAIN orders :
            ClickCallback(c, id, orders[id].total_amount, 0, TRUE, 0, 0)
    \/ \E c \in ClickIds, id \in DOMAIN orders, e \in {0, -1} :
            ClickCallback(c, id, orders[id].total_amount, 1, TRUE, id, e)

InitiationSpec == InitiationInit /\ [][InitiationNext]_vars

\* --------------------------------------------------------- fair scheduling
\* The requests that workers serve while others are in flight: Payme Create
\* on either order, Perform and Cancel of X, a Click Complete on order 1 that
\* reports a provider failure, and a Payme initiation of either buyer.
FairRequest(op, id, p, error) ==
    [op |-> op, x |-> "X", error |-> error, id |-> id, p |-> p]

FairRequests ==
    {FairRequest("Create", id, "p1", 0) : id \in 1..2}
    \cup {FairRequest("Complete", 1, "p1", -1)}
    \cup {FairRequest(op, 0, "p1", 0) : op \in {"Perform", "Cancel"}}
    \cup {FairRequest("Initiate", 0, p, 0) : p \in Buyers}

\* Mutant of Released: leaving the atomic block keeps the row locks.
ReleasedNothing(locks) == locks

\* Leaving "with transaction.atomic()" by return, by a fault returned inside
\* it or by an exception ends the transaction: its row locks are released.
Released(locks) == {}

\* The row i is locked by some worker's open transaction or running UPDATE.
Held(i) == \E pr \in Procs : inflight[pr].pc # "idle" /\ i \in inflight[pr].locks

\* The worker has answered with the code.
Answered(pr, req, code, locks) ==
    [inflight EXCEPT ![pr] =
        [pc |-> "done", req |-> req, code |-> code, locks |-> Released(locks)]]

\* The buyer's pending rows that the initiation's UPDATE has still to lock.
ToSupersede(p, locks) ==
    {i \in DOMAIN orders :
        orders[i].participant = p /\ orders[i].status = "pending"} \ locks

\* A request arrives at an idle worker. A Payme handler looks its row up
\* with select_for_update and waits for the row's lock; Click's post reads
\* the row without a lock; the initiation view reads the buyer and goes on
\* to its UPDATE.
Arrive(pr, req) ==
    /\ inflight[pr].pc = "idle"
    /\ orders # <<>>
    /\ IF req.op \in PaymeOps
       THEN LET row == IF req.op = "Create"
                       THEN (IF req.id \in DOMAIN orders THEN req.id ELSE 0)
                       ELSE FindByTx(req.x)
            IN inflight' =
                IF row = 0
                THEN Answered(pr, req, IF req.op = "Create"
                                       THEN ERROR_ORDER_NOT_FOUND
                                       ELSE ERROR_TRANSACTION_NOT_FOUND, {})
                ELSE [inflight EXCEPT ![pr] =
                        [pc |-> "waiting", req |-> req, row |-> row, locks |-> {}]]
       ELSE IF req.op = "Complete"
       THEN inflight' =
                IF req.id \notin DOMAIN orders
                THEN Answered(pr, req, CLICK_ERROR_USER_NOT_FOUND, {})
                ELSE [inflight EXCEPT ![pr] =
                        [pc |-> "read", req |-> req, row |-> req.id,
                         snap |-> orders[req.id], at |-> now, locks |-> {}]]
       ELSE /\ Len(orders) + Cardinality({q \in Procs : inflight[q].pc = "updating"})
                    < MaxInitiated
            /\ inflight' =
                IF participants[req.p].is_paid
                THEN Answered(pr, req, 400, {})
                ELSE [inflight EXCEPT ![pr] =
                        [pc |-> "updating", req |-> req, locks |-> {}]]
    /\ UNCHANGED <<orders, participants, now, base>>

\* select_for_update returns: the row's lock is free and the worker takes it.
Acquire(pr) ==
    LET w == inflight[pr] IN
    /\ w.pc = "waiting"
    /\ ~Held(w.row)
    /\ inflight' = [inflight EXCEPT ![pr] =
            [pc |-> "locked", req |-> w.req, row |-> w.row, snap |-> orders[w.row],
             at |-> now, locks |-> {w.row}]]
    /\ UNCHANGED <<orders, participants, now, base>>

\* The atomic block runs to its end, by its last statement or by a return
\* inside it, and commits.
Commit(pr) ==
    LET w == inflight[pr]
        out == RowHandler(w.req, w.snap, w.at, now)
        buyer == w.snap.participant
    IN
    /\ w.pc = "locked"
    /\ orders' = IF out.order = w.snap THEN orders
                 ELSE [orders EXCEPT ![w.row] =
                          Save(@, out.order, SavedFields(w.req, w.snap))]
    /\ participants' = [participants EXCEPT ![buyer] = WriteBuyer(@, out.buyer, now)]
    /\ inflight' = Answered(pr, w.req, out.result.code, w.locks)
    /\ UNCHANGED <<now, base>>

\* An exception inside the atomic block: the transaction is rolled back and
\* post answers with the internal fault.
Abort(pr) ==
    LET w == inflight[pr] IN
    /\ w.pc = "locked"
    /\ inflight' = Answered(pr, w.req, ERROR_INTERNAL_SERVER, w.locks)
    /\ UNCHANGED <<orders, participants, now, base>>

\* Click's Complete decides on the row it has read; its UPDATE waits while
\* another transaction holds the row's lock.
ClickStore(pr) ==
    LET w == inflight[pr]
        out == RowHandler(w.req, w.snap, w.at, now)
        buyer == w.snap.participant
    IN
    /\ w.pc = "read"
    /\ out.order # w.snap => ~Held(w.row)
    /\ orders' = IF out.order = w.snap THEN orders
                 ELSE [orders EXCEPT ![w.row] =
                          Save(@, out.order, SavedFields(w.req, w.snap))]
    /\ participants' = [participants EXCEPT ![buyer] = WriteBuyer(@, out.buyer, now)]
    /\ inflight' = Answered(pr, w.req, out.result.code, {})
    /\ UNCHANGED <<now, base>>

\* The initiation's UPDATE locks the buyer's pending rows one after another,
\* waiting for a row that another transaction holds.
LockNext(pr) ==
    LET w == inflight[pr] IN
    /\ w.pc = "updating"
    /\ ToSupersede(w.req.p, w.locks) # {}
    /\ LET todo == ToSupersede(w.req.p, w.locks)
           i == CHOOSE k \in todo : \A j \in todo : k <= j
       IN  /\ ~Held(i)
           /\ inflight' = [inflight EXCEPT ![pr].locks = @ \cup {i}]
    /\ UNCHANGED <<orders, participants, now, base>>

\* The UPDATE has locked every pending row of the buyer: it cancels them,
\* the statement ends, and the view inserts the new order and answers.
Supersede(pr) ==
    LET w == inflight[pr] IN
    /\ w.pc = "updating"
    /\ ToSupersede(w.req.p, w.locks) = {}
    /\ orders' = SupersedePending(w.req.p) \o <<NewOrder(w.req.p, 1, "payme")>>
    /\ inflight' = Answered(pr, w.req, 200, w.locks)
    /\ UNCHANGED <<participants, now, base>>

\* Orders are initiated and taken through the callbacks one request at a
\* time; then the workers serve requests side by side.
FairNext ==
    \/ Quiet /\ \E p \in Buyers : InitiatePayment(p, {1})
    \/ Quiet /\ \E id \in DOMAIN orders :
            CreateTransaction(id, ExpectedAmountTiyin(orders[id]), "X", NULL)
    \/ Quiet /\ PerformTransaction("X")
    \/ \E pr \in Procs, req \in FairRequests : Arrive(pr, req)
    \/ \E pr \in Procs : Acquire(pr)
    \/ \E pr \in Procs : Commit(pr)
    \/ \E pr \in Procs : Abort(pr)
    \/ \E pr \in Procs : ClickStore(pr)
    \/ \E pr \in Procs : LockNext(pr)
    \/ \E pr \in Procs : Supersede(pr)

\* The database serves lock waiters in turn (strong fairness of the steps
\* that wait for a lock); a running handler runs on (weak fairness).
Fairness ==
    \A pr \in Procs :
        /\ SF_vars(Acquire(pr))
        /\ SF_vars(LockNext(pr))
        /\ SF_vars(ClickStore(pr))
        /\ WF_vars(Commit(pr))
        /\ WF_vars(Supersede(pr))

FairSpec == InitiationInit /\ [][FairNext]_vars /\ Fairness

\* ================================================================== claims
\* The order a Payme request on transaction x addresses.
Addressed(x) == orders[FindByTx(x)]

Bound(x) == FindByTx(x) # 0

\* ---------------------------------------------------------------------- C1
\* C1 as stated: whenever an order is bound to one external id, a Create for
\* that order with the order's exact amount and a different external id is
\* answered with the busy fault (-31050) and changes nothing.
C1_RebindAlwaysBusy ==
    \A id \in DOMAIN orders, x \in TxIds, t \in CreateTimes :
        orders[id].payme_transaction_id \notin {NoTx, x} =>
            LET call == CreateTransactionCall(id, ExpectedAmountTiyin(orders[id]), x, t)
            IN  /\ call.result.code = ERROR_ORDER_NOT_FOUND
                /\ call.orders = orders
                /\ call.participants = participants

\* The fault a Create with a different external id gets on a bound order.
C1_RebindFault(o, amount) ==
    IF amount # ExpectedAmountTiyin(o) THEN ERROR_INVALID_AMOUNT
    ELSE IF o.status = "paid" THEN ERROR_ORDER_ALREADY_PAID
    ELSE ERROR_ORDER_NOT_FOUND

C1_RebindRejected ==
    \A id \in DOMAIN orders, a \in TiyinAmounts, x \in TxIds, t \in CreateTimes :
        orders[id].payme_transaction_id \notin {NoTx, x} =>
            LET call == CreateTransactionCall(id, a, x, t)
            IN  /\ call.result.code = C1_RebindFault(orders[id], a)
                /\ call.orders = orders
                /\ call.participants = participants

C1_IdKept ==
    \A i \in DOMAIN orders :
        orders[i].payme_transaction_id # NoTx =>
            /\ i \in DOMAIN orders'
            /\ orders'[i].payme_transaction_id = orders[i].payme_transaction_id

\* C1 amended: under every sequence of Payme callbacks, Click callbacks and
\* initiations a bound external id never changes, and a Create for the order
\* with a different external id is answered with a fault and changes nothing:
\* invalid-amount when the amount is wrong, else already-paid (-31051) when
\* the order is paid, else -31050 (busy while pending, blocked once cancelled).
C1_BoundIdNeverChanges == []C1_RebindRejected /\ [][C1_IdKept]_vars

\* A pending order bound to X for which a Create with Y gets the busy fault.
C1_Witness ==
    \E id \in DOMAIN orders :
        /\ orders[id].payme_transaction_id = "X"
        /\ orders[id].status = "pending"
        /\ CreateTransactionCall(id, ExpectedAmountTiyin(orders[id]), "Y", NULL).result.note
              = "Order is busy"

\* ---------------------------------------------------------------------- C2
\* C2: a repeated Create with the same order, amount and external id on a
\* pending order returns the stored create_time and state, whatever time the
\* repeated request carries, and writes nothing.
C2_ReplayReturnsStored ==
    \A id \in DOMAIN orders, t \in CreateTimes :
        (orders[id].status = "pending" /\ HasTransaction(orders[id])) =>
            LET call == CreateTransactionCall(id, ExpectedAmountTiyin(orders[id]),
                                              orders[id].payme_transaction_id, t)
            IN  /\ call.result.code = 0
                /\ call.result.create_time = orders[id].payme_create_time
                /\ call.result.state = orders[id].payme_state
                /\ call.orders = orders
                /\ call.participants = participants

\* ---------------------------------------------------------------------- C3
\* The state diagram: unbound -> 1, 1 -> 2, unbound or 1 -> -1, 2 -> -2.
AllowedTransition(s, t) ==
    \/ s = t
    \/ s = NULL /\ t \in {1, -1}
    \/ s = 1 /\ t \in {2, -1}
    \/ s = 2 /\ t = -2

C3_StepFollowsDiagram ==
    \A i \in DOMAIN orders :
        /\ i \in DOMAIN orders'
        /\ AllowedTransition(orders[i].payme_state, orders'[i].payme_state)

\* C3: every change of an order's Payme state follows the state diagram.
C3_StateDiagram == [][C3_StepFollowsDiagram]_vars

\* ---------------------------------------------------------------------- C4
\* C4: a buyer's is_paid is true exactly when one of the buyer's orders is
\* paid (marked paid and not cancelled since).
C4_IsPaidIffPaidOrder ==
    \A p \in Participants :
        participants[p].is_paid <=>
            \E i \in DOMAIN orders :
                orders[i].participant = p /\ orders[i].status = "paid"

\* ---------------------------------------------------------------------- C5
\* What Perform returns and writes on a pending transaction in state 1.
C5_PerformOutcome ==
    \A x \in TxIds :
        (Bound(x) /\ Addressed(x).status = "pending" /\ Addressed(x).payme_state = 1) =>
            LET id == FindByTx(x)
                call == PerformTransactionCall(x)
            IN  /\ call.result.code = 0
                /\ call.result.state = 2
                /\ call.result.perform_time = now
                /\ call.orders =
                      [orders EXCEPT ![id] = [@ EXCEPT !.status = "paid",
                                                       !.payme_state = 2,
                                                       !.payme_perform_time = now]]
                /\ call.participants =
                      [participants EXCEPT ![orders[id].participant] =
                            [is_paid |-> TRUE, paid_at |-> now]]

\* A step that takes a pending order from state 1 to state 2 writes the
\* order and its buyer together.
C5_PerformAtomic ==
    \A i \in DOMAIN orders :
        ( /\ orders[i].status = "pending" /\ orders[i].payme_state = 1
          /\ i \in DOMAIN orders' /\ orders'[i].payme_state = 2 ) =>
            /\ orders'[i].status = "paid"
            /\ orders'[i].payme_perform_time = now
            /\ participants'[orders[i].participant] = [is_paid |-> TRUE, paid_at |-> now]

\* C5: Perform on a bound transaction whose order is pending in state 1 sets
\* state 2, stamps perform_time, marks the order paid and sets the buyer's
\* is_paid and paid_at, all in one step.
C5_PerformCommitsOrderAndBuyer == []C5_PerformOutcome /\ [][C5_PerformAtomic]_vars

\* An order as a Perform leaves it, with its buyer.
C5_Witness ==
    \E i \in DOMAIN orders :
        /\ orders[i].payme_state = 2
        /\ orders[i].status = "paid"
        /\ orders[i].payme_perform_time = now
        /\ participants[orders[i].participant] = [is_paid |-> TRUE, paid_at |-> now]

\* ---------------------------------------------------------------------- C6
\* C6: Cancel on a transaction whose order is paid sets state -2 and status
\* cancelled, stamps cancel_time, keeps perform_time, stores reason 5 when
\* the request gives none, and clears the buyer's is_paid and paid_at.
C6_CancelPaid ==
    \A x \in TxIds, r \in Reasons :
        (Bound(x) /\ Addressed(x).status = "paid") =>
            LET id == FindByTx(x)
                call == CancelTransactionCall(x, r)
            IN  /\ call.result.code = 0
                /\ call.result.state = -2
                /\ call.result.cancel_time = now
                /\ call.orders =
                      [orders EXCEPT ![id] =
                          [@ EXCEPT !.status = "cancelled",
                                    !.payme_state = -2,
                                    !.payme_cancel_time = now,
                                    !.payme_cancel_reason = IF r = NULL THEN 5 ELSE r]]
                /\ call.participants =
                      [participants EXCEPT ![orders[id].participant] =
                            [is_paid |-> FALSE, paid_at |-> NULL]]

\* A performed order as a Cancel without reason leaves it, with its buyer.
C6_Witness ==
    \E i \in DOMAIN orders :
        /\ orders[i].payme_state = -2
        /\ orders[i].status = "cancelled"
        /\ orders[i].payme_perform_time > 0
        /\ orders[i].payme_cancel_time >= orders[i].payme_perform_time
        /\ orders[i].payme_cancel_reason = 5
        /\ participants[orders[i].participant] = [is_paid |-> FALSE, paid_at |-> NULL]

\* ---------------------------------------------------------------------- C7
\* C7: Cancel on a transaction whose order is pending sets state -1 and
\* status cancelled, stores perform_time 0, stamps cancel_time, stores reason
\* 3 when the request gives none, and leaves the buyer unchanged.
C7_CancelPending ==
    \A x \in TxIds, r \in Reasons :
        (Bound(x) /\ Addressed(x).status = "pending") =>
            LET id == FindByTx(x)
                call == CancelTransactionCall(x, r)
            IN  /\ call.result.code = 0
                /\ call.result.state = -1
                /\ call.result.cancel_time = now
                /\ call.orders =
                      [orders EXCEPT ![id] =
                          [@ EXCEPT !.status = "cancelled",
                                    !.payme_state = -1,
                                    !.payme_perform_time = 0,
                                    !.payme_cancel_time = now,
                                    !.payme_cancel_reason = IF r = NULL THEN 3 ELSE r]]
                /\ call.participants = participants

\* A never-performed order as a Cancel without reason leaves it.
C7_Witness ==
    \E i \in DOMAIN orders :
        /\ orders[i].payme_state = -1
        /\ orders[i].status = "cancelled"
        /\ orders[i].payme_perform_time = 0
        /\ orders[i].payme_cancel_time > 0
        /\ orders[i].payme_cancel_reason = 3

\* ---------------------------------------------------------------------- C8
\* C8: Perform on a transaction in state -1 returns the stored cancel_time
\* and state -1 and changes neither the order nor the buyer.
C8_PerformOnCancelled ==
    \A x \in TxIds :
        (Bound(x) /\ Addressed(x).payme_state = -1) =>
            LET call == PerformTransactionCall(x)
            IN  /\ call.result.code = 0
                /\ call.result.state = -1
                /\ call.result.cancel_time = Addressed(x).payme_cancel_time
                /\ call.result.perform_time = NULL
                /\ call.orders = orders
                /\ call.participants = participants

\* A transaction in state -1 on which Perform answers with its cancel_time.
C8_Witness ==
    \E x \in TxIds :
        /\ Bound(x)
        /\ Addressed(x).payme_state = -1
        /\ Addressed(x).payme_cancel_time > 0
        /\ PerformTransactionCall(x).result.cancel_time = Addressed(x).payme_cancel_time

\* ---------------------------------------------------------------------- C9
\* No order bound to x has been cancelled.
NotCancelled(x) ==
    \A j \in DOMAIN orders :
        orders[j].payme_transaction_id = x => ~IsCancelled(orders[j])

\* C9: once a Perform on transaction x has succeeded (an order bound to x is
\* in state 2) and x is not cancelled, every further Perform on x returns
\* state 2 with that order's perform_time and writes nothing.
C9_PerformReplay ==
    \A x \in TxIds, i \in DOMAIN orders :
        ( /\ orders[i].payme_transaction_id = x
          /\ orders[i].payme_state = 2
          /\ NotCancelled(x) ) =>
            LET call == PerformTransactionCall(x)
            IN  /\ call.result.state = 2
                /\ call.result.perform_time = orders[i].payme_perform_time
                /\ call.orders = orders
                /\ call.participants = participants

\* --------------------------------------------------------------------- C10
\* C10: once a Cancel on transaction x has succeeded (its order is in state
\* -1 or -2 with a cancel_time), every further Cancel on x, with any reason
\* or none, returns the stored cancel_time and state and writes nothing.
C10_CancelReplay ==
    \A x \in TxIds, r \in Reasons :
        ( /\ Bound(x)
          /\ Addressed(x).payme_state \in {-1, -2}
          /\ Addressed(x).payme_cancel_time # NULL ) =>
            LET call == CancelTransactionCall(x, r)
            IN  /\ call.result.state = Addressed(x).payme_state
                /\ call.result.cancel_time = Addressed(x).payme_cancel_time
                /\ call.orders = orders
                /\ call.participants = participants

\* --------------------------------------------------------------------- C11
\* C11: Check reports perform_time 0 for a transaction whose stored state is
\* -1, and for stored state 2 or -2 a perform_time greater than 0: the stored
\* perform_time, or the reported create_time when none was recorded.
C11_CheckPerformTime ==
    \A x \in TxIds, c \in 1..now, u \in 1..now :
        Bound(x) =>
            LET o == Addressed(x)
                r == CheckTransactionCall(x, c, u).result
            IN  /\ o.payme_state = -1 => r.perform_time = 0
                /\ o.payme_state \in {2, -2} =>
                      /\ r.perform_time > 0
                      /\ r.state = o.payme_state
                      /\ r.perform_time =
                            IF o.payme_perform_time # NULL /\ o.payme_perform_time > 0
                            THEN o.payme_perform_time
                            ELSE r.create_time

\* A transaction in state -2 with no perform_time recorded, for which Check
\* reports the create_time.
C11_Witness ==
    \E x \in TxIds :
        /\ Bound(x)
        /\ Addressed(x).payme_state = -2
        /\ Addressed(x).payme_perform_time = NULL
        /\ CheckTransactionCall(x, now, now).result.perform_time > 0
        /\ CheckTransactionCall(x, now, now).result.perform_time
              = CheckTransactionCall(x, now, now).result.create_time

\* --------------------------------------------------------------------- C12
\* C12: CheckPerform on a pending order returns the allow signal if and only
\* if the given amount equals the order's total_amount times 100 exactly; any
\* other amount is rejected with the invalid-amount fault.
C12_AllowIffExactAmount ==
    \A id \in DOMAIN orders, a \in JsonAmounts :
        orders[id].status = "pending" =>
            LET r == CheckPerformTransactionCall(id, GetAmountTiyin(a)).result
            IN  IF a = ExpectedAmountTiyin(orders[id]) * 10
                THEN r.code = 0 /\ r.allow
                ELSE r.code = ERROR_INVALID_AMOUNT /\ ~r.allow

\* --------------------------------------------------------------------- C13
\* The orders a statement lists.
Listed(from_ts, to_ts) ==
    {t.order : t \in GetStatementCall(from_ts, to_ts).result.transactions}

\* C13: Statement(from, to) with from <= to returns exactly the orders with a
\* bound Payme transaction and a stored create_time in [from, to], bounds
\* included; with from > to it is rejected with the invalid-params fault and
\* returns no transactions.
C13_StatementRange ==
    \A f \in 0..MaxTime, t \in 0..MaxTime :
        LET r == GetStatementCall(f, t).result IN
        IF f <= t
        THEN /\ r.code = 0
             /\ Listed(f, t) =
                   {i \in DOMAIN orders :
                       /\ orders[i].payme_transaction_id # NoTx
                       /\ orders[i].payme_create_time # NULL
                       /\ f <= orders[i].payme_create_time
                       /\ orders[i].payme_create_time <= t}
             /\ Cardinality(r.transactions) = Cardinality(Listed(f, t))
        ELSE r.code = ERROR_INVALID_PARAMS /\ r.transactions = {}

\* A statement that lists an order created at its upper bound and leaves out
\* one created one millisecond later.
C13_Witness ==
    \E t \in 0..MaxTime, i \in DOMAIN orders, j \in DOMAIN orders :
        /\ orders[i].payme_transaction_id # NoTx
        /\ orders[j].payme_transaction_id # NoTx
        /\ orders[i].payme_create_time = t
        /\ orders[j].payme_create_time = t + 1
        /\ Listed(0, t) = {i}

\* --------------------------------------------------------------------- C14
\* C14: on a pending order on which a Prepare has succeeded, a Complete with
\* valid signature, correct amount, non-negative error code and a prepare id
\* other than the stored one returns the not-found fault (-6) and leaves the
\* order pending and the buyer unchanged.
C14_PrepareIdMismatch ==
    \A id \in DOMAIN orders, c \in ClickIds, a \in SumAmounts, pid \in PrepareIds :
        ( /\ orders[id].status = "pending"
          /\ orders[id].click_prepare_id = id
          /\ ClickAmountOk(orders[id], a)
          /\ pid # orders[id].click_prepare_id ) =>
            LET call == ClickCallbackCall(c, id, a, 1, TRUE, pid, 0)
            IN  /\ call.result.code = CLICK_ERROR_TRANSACTION_NOT_FOUND
                /\ call.orders = orders
                /\ call.orders[id].status = "pending"
                /\ call.participants = participants

\* A prepared pending order for which a Complete without prepare id gets -6.
C14_Witness ==
    \E id \in DOMAIN orders :
        /\ orders[id].status = "pending"
        /\ orders[id].click_prepare_id = id
        /\ orders[id].click_trans_id \in ClickIds
        /\ ClickCallbackCall(orders[id].click_trans_id, id, orders[id].total_amount,
                             1, TRUE, 0, 0).result.code = CLICK_ERROR_TRANSACTION_NOT_FOUND

\* --------------------------------------------------------------------- C15
\* The row shows that a Complete has marked the order paid: it is paid
\* without a Payme Perform, or it was cancelled after that.
MarkedPaidByComplete(o) ==
    /\ o.click_prepare_id # NULL
    /\ \/ o.status = "paid" /\ o.payme_state # 2
       \/ o.status = "cancelled" /\ o.payme_state = -2 /\ o.payme_perform_time = NULL

\* C15 as stated: after a Complete has marked an order paid, every further
\* Complete for that order with a non-negative error code returns the
\* already-paid fault (-4) and writes nothing.
C15_CompleteAlwaysAlreadyPaid ==
    \A id \in DOMAIN orders, c \in ClickIds, a \in SumAmounts, pid \in PrepareIds :
        (MarkedPaidByComplete(orders[id]) /\ ClickAmountOk(orders[id], a)) =>
            LET call == ClickCallbackCall(c, id, a, 1, TRUE, pid, 0)
            IN  /\ call.result.code = CLICK_ERROR_ALREADY_PAID
                /\ call.orders = orders
                /\ call.participants = participants

\* C15 amended: while an order is paid, every Complete for that order with
\* valid signature, correct amount and a non-negative error code returns the
\* already-paid fault (-4) and writes nothing; once a Payme Cancel has
\* cancelled the order the answer is the cancelled fault (-9), still without
\* a write.
C15_CompleteReplay ==
    \A id \in DOMAIN orders, c \in ClickIds, a \in SumAmounts, pid \in PrepareIds :
        ( /\ orders[id].status = "paid" \/ MarkedPaidByComplete(orders[id])
          /\ ClickAmountOk(orders[id], a) ) =>
            LET call == ClickCallbackCall(c, id, a, 1, TRUE, pid, 0)
            IN  /\ call.result.code =
                      IF orders[id].status = "paid"
                      THEN CLICK_ERROR_ALREADY_PAID
                      ELSE CLICK_ERROR_TRANSACTION_CANCELLED
                /\ call.orders = orders
                /\ call.participants = participants

\* An order a Complete has marked paid, on which a further Complete gets -4.
C15_Witness ==
    \E id \in DOMAIN orders :
        /\ orders[id].status = "paid"
        /\ MarkedPaidByComplete(orders[id])
        /\ participants[orders[id].participant].is_paid
        /\ ClickCallbackCall(orders[id].click_trans_id, id, orders[id].total_amount,
                             1, TRUE, id, 0).result.code = CLICK_ERROR_ALREADY_PAID

\* --------------------------------------------------------------------- C16
\* C16: a Click callback whose signature does not match returns the
\* signature fault (-1) and mutates nothing, whatever the merchant order id
\* refers to (existing, missing or malformed).
C16_BadSignatureFault ==
    \A c \in ClickIds, id \in OrderIds \cup {NULL}, a \in SumAmounts,
       action \in {0, 1}, pid \in PrepareIds :
        LET call == ClickCallbackCall(c, id, a, action, FALSE, pid, 0)
        IN  /\ call.result.code = CLICK_ERROR_SIGN_CHECK_FAILED
            /\ call.orders = orders
            /\ call.participants = participants

\* --------------------------------------------------------------------- C17
\* Missing or wrong credentials, or no shared secret configured (stated from
\* the request alone, independently of _verify_auth).
Unauthorized(key, cred) ==
    \/ key = ""
    \/ cred = NoCredentials
    \/ cred # [username |-> "Paycom", password |-> key]

C20_LinkedOrderCarriesTotal ==
    \A p \in Participants, sel \in (SUBSET Subjects) \ {{}} :
        ~participants[p].is_paid =>
            LET payme == InitiatePaymentCall(p, sel)
                click == InitiateClickPaymentCall(p, sel)
            IN  /\ payme.orders[payme.result.order].total_amount = SumPrices(sel)
                /\ payme.result.amount
                      = ExpectedAmountTiyin(payme.orders[payme.result.order])
                /\ click.orders[click.result.order].total_amount = SumPrices(sel)
                /\ ClickAmountOk(click.orders[click.result.order], click.result.amount)

\* --------------------------------------------------------------------- C18
\* Every worker has answered.
AllDone == \A pr \in Procs : inflight[pr].pc = "done"

\* Only Payme callbacks are or were in flight.
PaymeOnly == \A pr \in Procs : inflight[pr].req.op \notin ClickOps

\* The call the worker record r has served, run as a whole on the tables s.
SerialStep(r, s) ==
    LET found == r.req.op = "Create" \/ s.order.payme_transaction_id = r.req.x
        out == IF found
               THEN RowHandler(r.req, s.order, r.at, r.at)
               ELSE RowOutcome(FaultResp(ERROR_TRANSACTION_NOT_FOUND,
                                         "Transaction not found"), s.order, "same")
    IN [order |-> out.order,
        buyer |-> WriteBuyer(s.buyer, out.buyer, r.at),
        same |-> s.same /\ out.result = r.result]

\* The final tables and both responses are those of the two calls served one
\* after the other, in one of the two orders.
Serializable ==
    \E first \in Procs, second \in Procs :
        /\ first # second
        /\ LET start == [order |-> base.order, buyer |-> base.buyer, same |-> TRUE]
               final == SerialStep(inflight[second], SerialStep(inflight[first], start))
           IN  /\ final.same
               /\ final.order = orders[1]
               /\ final.buyer = participants[orders[1].participant]

\* The two calls are a Perform and a Cancel on a transaction found in state 1.
PerformCancelRace ==
    /\ {inflight[pr].req.op : pr \in Procs} = {"Perform", "Cancel"}
    /\ base.order.payme_transaction_id = "X"
    /\ base.order.payme_state = 1
    /\ base.order.status = "pending"

\* C18: for every interleaving of concurrent Create, Perform and Cancel calls
\* on one order the final state and the responses are those of a serial order
\* of the calls; concurrent Perform and Cancel on a state-1 transaction end
\* in state -1 with perform_time 0 or in state -2 with the perform_time kept,
\* the buyer unpaid in both, and the order is never cancelled while the buyer
\* is paid.
C18_PaymeCallsSerialize ==
    PaymeOnly =>
        /\ \A pr \in Procs : inflight[pr].pc = "locked" =>
                orders[inflight[pr].row] = inflight[pr].snap
        /\ AllDone => Serializable
        /\ (AllDone /\ PerformCancelRace) =>
                /\ ~participants[orders[1].participant].is_paid
                /\ \/ orders[1].payme_state = -1 /\ orders[1].payme_perform_time = 0
                   \/ /\ orders[1].payme_state = -2
                      /\ orders[1].payme_perform_time > 0
                      /\ \E pr \in Procs :
                            /\ inflight[pr].req.op = "Perform"
                            /\ inflight[pr].result.perform_time
                                  = orders[1].payme_perform_time
        /\ (orders # <<>> /\ orders[1].status = "cancelled") =>
                ~participants[orders[1].participant].is_paid

\* A Perform and a Cancel served concurrently on a state-1 transaction, the
\* Perform first: state -2 with the perform_time kept.
C18_Witness ==
    /\ AllDone
    /\ PerformCancelRace
    /\ orders[1].payme_state = -2
    /\ orders[1].payme_perform_time > 0
    /\ ~participants[orders[1].participant].is_paid

\* --------------------------------------------------------------------- C19
\* Two concurrent Completes never both return success.
C19_NoDoubleSuccess ==
    ~ \E p1 \in Procs, p2 \in Procs :
        /\ p1 # p2
        /\ \A pr \in {p1, p2} :
              /\ inflight[pr].pc = "done"
              /\ inflight[pr].req.op = "Complete"
              /\ inflight[pr].req.error = 0
              /\ inflight[pr].result.code = CLICK_ERROR_SUCCESS

\* No step marks a cancelled order paid.
C19_NoPaidAfterCancel ==
    (orders # <<>> /\ orders[1].status = "cancelled") => orders'[1].status # "paid"

\* C19: Click Prepare and Complete read and write the order under its lock:
\* two concurrent Completes never both return success, and a Complete that
\* runs concurrently with a Payme Cancel or a failure-signalled Complete
\* never marks the order paid after the cancellation has committed.
C19_ClickUnderLock == []C19_NoDoubleSuccess /\ [][C19_NoPaidAfterCancel]_vars

\* --------------------------------------------------------------------- C21
\* The orders of buyer p that are pending.
PendingOf(os, p) == {i \in DOMAIN os : os[i].participant = p /\ os[i].status = "pending"}

\* What C21 asks of a successful initiation of buyer p with selection sel
\* that leaves the Order table os.
Superseded(os, p, sel) ==
    /\ Len(os) = Len(orders) + Cardinality(ValidSubjects(sel))
    /\ \A i \in DOMAIN orders :
            IF i \in PendingOf(orders, p)
            THEN os[i] = [orders[i] EXCEPT !.status = "cancelled"]
            ELSE os[i] = orders[i]
    /\ \A i \in DOMAIN os \ DOMAIN orders :
            os[i].participant = p /\ os[i].status = "pending"
    /\ Cardinality(PendingOf(os, p)) = Cardinality(ValidSubjects(sel))

\* C21: after a successful initiation for a buyer (either provider), every
\* order of that buyer that was pending before the call has status cancelled,
\* exactly one new pending order exists per selected valid item, and the
\* buyer's paid or cancelled orders and all orders of other buyers are
\* unchanged.
C21_InitiationSupersedes ==
    \A p \in Buyers, sel \in Selections :
        /\ LET call == InitiatePaymentPostCall("merchant", p, sel)
           IN call.result.status = 200 => Superseded(call.orders, p, sel)
        /\ LET call == InitiateClickPaymentPostCall("service", "merchant", p, sel)
           IN call.result.status = 200 => Superseded(call.orders, p, sel)

\* A second initiation of p1 has superseded p1's pending order while p2's
\* pending order stands.
C21_Witness ==
    /\ Len(orders) = 3
    /\ orders[1].participant = "p1" /\ orders[1].status = "cancelled"
    /\ orders[1].payme_transaction_id = NoTx
    /\ orders[2].participant = "p2" /\ orders[2].status = "pending"
    /\ orders[3].participant = "p1" /\ orders[3].status = "pending"

\* --------------------------------------------------------------------- C22
\* C22: when the merchant identifier of the chosen provider is not
\* configured, initiation fails with an error and never returns a pay-link
\* built with a missing or empty merchant identifier: the Payme link's
\* merchant id, the Click link's service id and merchant id.
C22_NoLinkWithoutMerchant ==
    \A p \in Buyers, sel \in Selections :
        /\ \A payme_id \in MerchantIds :
                LET answer == InitiatePaymentPostCall(payme_id, p, sel).result
                IN payme_id = "" => answer.status # 200 /\ answer.pay_url = NoLink
        /\ \A service_id \in ServiceIds, merchant_id \in MerchantIds :
                LET answer == InitiateClickPaymentPostCall(service_id, merchant_id,
                                                           p, sel).result
                IN (service_id = "" \/ merchant_id = "") =>
                        answer.status # 200 /\ answer.pay_url = NoLink

\* --------------------------------------------------------------------- C23
\* The step is a Payme Perform or a Click Complete without a failure code.
PerformOrCompleteStep ==
    \/ \E x \in TxIds : PerformTransaction(x)
    \/ \E c \in ClickIds, id \in OrderIds, a \in SumAmounts, pid \in PrepareIds :
            ClickCallback(c, id, a, 1, TRUE, pid, 0)

C23_Step ==
    /\ Len(orders') >= Len(orders)
    /\ \A i \in DOMAIN orders :
            /\ orders[i].status = "cancelled" => orders'[i].status = "cancelled"
            /\ (orders[i].status # "paid" /\ orders'[i].status = "paid")
                    => PerformOrCompleteStep
    /\ \A i \in DOMAIN orders' \ DOMAIN orders : orders'[i].status = "pending"

C24_TransactionIdUnique ==
    \A i \in DOMAIN orders, j \in DOMAIN orders :
        (i # j /\ HasTransaction(orders[i])) =>
            orders[i].payme_transaction_id # orders[j].payme_transaction_id

\* --------------------------------------------------------------------- C26
\* A Create with the parameters of the one that bound x to order i: the time
\* it carried is the stored create_time, or was absent.
SameCreate(i, time) ==
    IF time = NULL THEN orders[i].payme_create_time # 0
    ELSE time = orders[i].payme_create_time

\* C26: a Create request that succeeded once, when sent again with identical
\* parameters at any later point, produces a result identical to the
\* original response (same create_time, transaction and state) and not a
\* fault.
C26_CreateReplayAnyTime ==
    \A i \in DOMAIN orders, time \in CreateTimes :
        (HasTransaction(orders[i]) /\ SameCreate(i, time)) =>
            LET call == CreateTransactionCall(i, ExpectedAmountTiyin(orders[i]),
                                              orders[i].payme_transaction_id, time)
            IN  /\ call.result.code = 0
                /\ call.result.create_time = orders[i].payme_create_time
                /\ call.result.state = 1

\* --------------------------------------------------------------------- C27
\* The order x addresses is cancelled while its Payme state is not a
\* cancelled state.
Unhealed(x) ==
    /\ Bound(x)
    /\ Addressed(x).status = "cancelled"
    /\ Addressed(x).payme_state \notin {-1, -2}

\* Cancel on such an order corrects the state, fills cancel_time and reason
\* only where they are missing, and touches nothing else.
C27_Heals ==
    \A x \in TxIds, r \in Reasons :
        Unhealed(x) =>
            LET o == Addressed(x)
                call == CancelTransactionCall(x, r)
                state == IF WasPerformed(o) THEN -2 ELSE -1
                cancel_time == IF o.payme_cancel_time = NULL THEN now
                               ELSE o.payme_cancel_time
                reason == IF o.payme_cancel_reason # NULL THEN o.payme_cancel_reason
                          ELSE IF r # NULL THEN r
                          ELSE IF WasPerformed(o) THEN 5 ELSE 3
            IN  /\ call.orders =
                      [orders EXCEPT ![FindByTx(x)] =
                          [o EXCEPT !.payme_state = state,
                                    !.payme_cancel_time = cancel_time,
                                    !.payme_cancel_reason = reason]]
                /\ call.participants = participants
                /\ call.result.code = 0
                /\ call.result.state = state
                /\ call.result.cancel_time = cancel_time

\* Order i is bound to x and a correcting Cancel has acted on it: cancelled,
\* in state -1 with a cancel_time, perform_time never written.
Healed(i, x) ==
    /\ orders[i].payme_transaction_id = x
    /\ orders[i].status = "cancelled"
    /\ orders[i].payme_state = -1
    /\ orders[i].payme_perform_time = NULL
    /\ orders[i].payme_cancel_time # NULL

\* Every later Cancel on x changes nothing and returns the cancel_time and
\* state the correcting Cancel returned.
C27_ThenSettled ==
    \A x \in TxIds, r \in Reasons, i \in DOMAIN orders :
        Healed(i, x) =>
            LET call == CancelTransactionCall(x, r)
            IN  /\ call.orders = orders
                /\ call.participants = participants
                /\ call.result.cancel_time = orders[i].payme_cancel_time
                /\ call.result.state = orders[i].payme_state

\* C27: Cancel on an order that is already cancelled but whose stored Payme
\* state is not the expected cancelled state corrects the state to -2 if the
\* order was performed and to -1 otherwise, fills cancel_time and reason only
\* where they are missing, and leaves the buyer unchanged; every later Cancel
\* changes nothing and returns the same cancel_time and state.
C27_CancelSelfHeals == C27_Heals /\ C27_ThenSettled

\* --------------------------------------------------------------------- C28
\* C28: Prepare on a paid order returns the already-paid fault (-4) and on a
\* cancelled order the cancelled fault (-9), writing nothing in both cases;
\* on a pending order it stores the provider's transaction id, sets the
\* prepare id to the order's own id, sets payment_method to click, leaves the
\* status pending and the buyer unchanged, and returns error 0 echoing the
\* prepare id.
C28_Prepare ==
    \A c \in ClickIds \cup OtherClickIds, i \in DOMAIN orders :
        LET o == orders[i]
            call == ClickCallbackCall(c, i, o.total_amount, 0, TRUE, 0, 0)
        IN  /\ call.participants = participants
            /\ o.status = "paid" =>
                    call.result.code = CLICK_ERROR_ALREADY_PAID /\ call.orders = orders
            /\ o.status = "cancelled" =>
                    /\ call.result.code = CLICK_ERROR_TRANSACTION_CANCELLED
                    /\ call.orders = orders
            /\ o.status = "pending" =>
                    /\ call.result.code = 0
                    /\ call.result.prepare_id = i
                    /\ call.orders =
                          [orders EXCEPT ![i] =
                              [o EXCEPT !.click_trans_id = c,
                                        !.click_prepare_id = i,
                                        !.payment_method = "click"]]

\* A Prepare has acted on the order a Payme initiation created for two
\* subjects: the order is still pending and its payment method is now click.
C28_Witness ==
    /\ Len(orders) = 2
    /\ orders[1].total_amount = 2
    /\ orders[1].status = "pending"
    /\ orders[1].click_prepare_id = 1
    /\ orders[1].click_trans_id \in ClickIds
    /\ orders[1].payment_method = "click"

\* --------------------------------------------------------------------- C29
\* C29: once a Prepare has bound a Click transaction id to an order, a later
\* Prepare for the same order that carries a different Click transaction id
\* is rejected and the stored Click transaction id stays the one bound first.
C29_ClickIdNeverRebound ==
    \A i \in DOMAIN orders, c \in ClickIds \cup OtherClickIds :
        (orders[i].click_trans_id # NULL /\ c # orders[i].click_trans_id) =>
            LET call == ClickCallbackCall(c, i, orders[i].total_amount, 0, TRUE, 0, 0)
            IN  /\ call.result.code # 0
                /\ call.orders[i].click_trans_id = orders[i].click_trans_id

\* --------------------------------------------------------------------- C30
\* C30: a Complete with a negative provider error code marks a not-yet-paid
\* order cancelled and acknowledges the cancellation; on an already-paid
\* order it changes nothing; in neither case does it modify the buyer's
\* is_paid or paid_at.
C30_FailureComplete ==
    \A c \in ClickIds, i \in DOMAIN orders, pid \in PrepareIds :
        LET o == orders[i]
            call == ClickCallbackCall(c, i, o.total_amount, 1, TRUE, pid, -1)
        IN  /\ call.participants = participants
            /\ call.result.code = CLICK_ERROR_TRANSACTION_CANCELLED
            /\ o.status = "paid" => call.orders = orders
            /\ o.status # "paid" =>
                    call.orders = [orders EXCEPT ![i] = [o EXCEPT !.status = "cancelled"]]

\* The only order there is has been cancelled without a Payme transaction:
\* a failure-signalled Complete has acted on it.
C30_Witness ==
    /\ Len(orders) = 1
    /\ orders[1].status = "cancelled"
    /\ orders[1].payme_transaction_id = NoTx
    /\ ~participants[orders[1].participant].is_paid

\* --------------------------------------------------------------------- C25
\* C25: any exception raised inside a Payme handler is answered with the
\* internal fault code -32400 and leaves order and buyer state exactly as
\* before the call: the order write and the buyer write of a Perform or
\* Cancel commit together or not at all.
C25_ExceptionRollsBack ==
    \A method \in {"CreateTransaction", "PerformTransaction", "CancelTransaction"},
       params \in PaymeParams, point \in RaisePoints :
        ReachesSave(method, params, point) =>
            LET call == PaymeRaisingCall(method, params, point)
            IN  /\ call.result.code = ERROR_INTERNAL_SERVER
                /\ call.orders = orders
                /\ call.participants = participants

\* A Perform would write the order and then the buyer, and a Cancel of a
\* performed transaction would do the same: the buyer's save can raise after
\* the order's save in either.
C25_Witness ==
    \E p \in PaymeParams, q \in PaymeParams :
        /\ ReachesSave("PerformTransaction", p, "buyer_save")
        /\ ReachesSave("CancelTransaction", q, "buyer_save")

\* --------------------------------------------------------------------- C31
\* C31: Click verifies the amount before any order-state check, in both
\* phases: a correctly signed request whose amount differs from the order's
\* total by more than the tolerance is answered -2 and changes nothing,
\* whatever the order's status and also when a Complete signals a provider
\* failure.
C31_AmountBeforeState ==
    \A c \in ClickIds, i \in DOMAIN orders, a \in SumAmounts, action \in {0, 1},
       pid \in PrepareIds, e \in {0, -1} :
        (Abs(orders[i].total_amount - a) * 100 > 1) =>
            LET call == ClickCallbackCall(c, i, a, action, TRUE, pid, e)
            IN  /\ call.result.code = CLICK_ERROR_INVALID_AMOUNT
                /\ call.orders = orders
                /\ call.participants = participants

\* A paid order and a cancelled order exist, and there is an amount that
\* differs from the total of each.
C31_Witness ==
    \E i \in DOMAIN orders, j \in DOMAIN orders, a \in SumAmounts :
        /\ orders[i].status = "paid"
        /\ orders[j].status = "cancelled"
        /\ Abs(orders[i].total_amount - a) * 100 > 1
        /\ Abs(orders[j].total_amount - a) * 100 > 1

\* --------------------------------------------------------------------- C32
\* C32: CheckPerform, Check and Statement never change any field of any
\* order or buyer; the create_time and cancel_time that Check backfills from
\* the row's timestamps are reported only, never stored.
C32_ReadOnly ==
    /\ \A id \in OrderIds \cup {NULL}, a \in JsonAmounts \cup {NULL} :
        LET call == CheckPerformTransactionCall(id, GetAmountTiyin(a))
        IN  call.orders = orders /\ call.participants = participants
    /\ \A x \in TxIds, c \in 1..MaxTime, u \in 1..MaxTime :
        LET call == CheckTransactionCall(x, c, u)
        IN  call.orders = orders /\ call.participants = participants
    /\ \A f \in StatementTimes, t \in StatementTimes :
        LET call == GetStatementCall(f, t)
        IN  call.orders = orders /\ call.participants = participants

\* Check's backfill happens: a cancelled transaction without a stored
\* create_time above zero is reported with the row's created_at while the
\* row keeps its fields.
C32_Witness ==
    \E x \in TxIds :
        /\ FindByTx(x) # 0
        /\ LET o == orders[FindByTx(x)]
               call == CheckTransactionCall(x, 1, 2)
           IN  /\ Or(o.payme_create_time, 0) <= 0
               /\ o.payme_state \in {-1, -2}
               /\ call.result.create_time = 1
               /\ call.orders[FindByTx(x)].payme_create_time = o.payme_create_time

\* --------------------------------------------------------------------- C33
\* C33: a Payme request with a missing or malformed parameter (order id,
\* amount, external id, from/to, and also a non-numeric time in Create or
\* reason in Cancel) is answered with the invalid-params fault -32602 and
\* changes no state.
InvalidParams(call) ==
    /\ call.result.code = ERROR_INVALID_PARAMS
    /\ call.orders = orders
    /\ call.participants = participants

\* The parameters the handlers do validate before the locked section.
C33_Validated ==
    /\ \A id \in OrderIds \cup {NULL}, a \in JsonAmounts \cup {NULL},
          x \in TxIds \cup {NoTx}, t \in CreateTimes :
        (id = NULL \/ a = NULL \/ x = NoTx) =>
            InvalidParams(CreateTransactionCall(id, GetAmountTiyin(a), x, t))
    /\ \A id \in OrderIds \cup {NULL}, a \in JsonAmounts \cup {NULL} :
        (id = NULL \/ a = NULL) =>
            InvalidParams(CheckPerformTransactionCall(id, GetAmountTiyin(a)))
    /\ InvalidParams(PerformTransactionCall(NoTx))
    /\ \A r \in Reasons : InvalidParams(CancelTransactionCall(NoTx, r))
    /\ InvalidParams(CheckTransactionCall(NoTx, now, now))
    /\ \A f \in StatementTimes, t \in StatementTimes :
        (f = NULL \/ t = NULL \/ f > t) => InvalidParams(GetStatementCall(f, t))

\* The claim as stated, the non-numeric time and reason included.
C33_MalformedIsInvalidParams ==
    /\ C33_Validated
    /\ \A id \in DOMAIN orders, x \in TxIds :
        InvalidParams(CreateTransactionCall(id, ExpectedAmountTiyin(orders[id]), x,
                                            NonNumeric))
    /\ \A x \in TxIds :
        FindByTx(x) # 0 => InvalidParams(CancelTransactionCall(x, NonNumeric))

\* What the code does with them: no state changes, the answer is never
\* invalid-params, and on a pending order a non-numeric time or reason is
\* answered with the internal fault.
C33_NonNumericAnswer ==
    /\ \A id \in OrderIds, a \in JsonAmounts, x \in TxIds :
        LET call == CreateTransactionCall(id, GetAmountTiyin(a), x, NonNumeric)
        IN  /\ call.orders = orders /\ call.participants = participants
            /\ call.result.code # ERROR_INVALID_PARAMS
            /\ (/\ id \in DOMAIN orders
                /\ orders[id].status = "pending"
                /\ ~HasTransaction(orders[id])
                /\ GetAmountTiyin(a) = ExpectedAmountTiyin(orders[id]))
                    => call.result.code = ERROR_INTERNAL_SERVER
    /\ \A x \in TxIds :
        LET call == CancelTransactionCall(x, NonNumeric)
        IN  /\ call.result.code # ERROR_INVALID_PARAMS
            /\ (FindByTx(x) # 0 /\ orders[FindByTx(x)].status = "pending")
                    => /\ call.result.code = ERROR_INTERNAL_SERVER
                       /\ call.orders = orders /\ call.participants = participants

\* --------------------------------------------------------------------- C34
\* C34: under fair scheduling every callback invocation ends with a response
\* and releases its order lock on every exit path (success, a fault returned
\* inside the locked section, an exception), so a callback waiting for an
\* order's lock is eventually served, and no set of concurrent callbacks and
\* initiations on orders of the same or of different buyers deadlocks.
InFlight(pr) == inflight[pr].pc \notin {"idle", "done"}

\* Some worker in flight can take a step.
CanStep ==
    \E pr \in Procs :
        \/ ENABLED Acquire(pr)
        \/ ENABLED Commit(pr)
        \/ ENABLED ClickStore(pr)
        \/ ENABLED LockNext(pr)
        \/ ENABLED Supersede(pr)

C34_NoLockKeptNoDeadlock ==
    /\ \A pr \in Procs : inflight[pr].pc = "done" => inflight[pr].locks = {}
    /\ (\E pr \in Procs : InFlight(pr)) => CanStep

\* A worker leaves its wait for a lock only by being given the lock.
Served ==
    \A pr \in Procs :
        (inflight[pr].pc = "waiting" /\ inflight'[pr].pc # "waiting")
            => (inflight'[pr].pc = "locked" /\ inflight'[pr].locks = {inflight[pr].row})

C35_StatusAgreesWithState ==
    \A i \in DOMAIN orders :
        orders[i].payme_transaction_id # NoTx =>
            /\ (orders[i].payme_state = 2) <=> (orders[i].status = "paid")
            /\ (orders[i].payme_state \in {-1, -2}) <=> (orders[i].status = "cancelled")

\* The direction the handlers do keep: a Payme state of 2 is stored only on
\* a paid order, a state of -1 or -2 only on a cancelled one.
C35_StateImpliesStatus ==
    \A i \in DOMAIN orders :
        orders[i].payme_transaction_id # NoTx =>
            /\ (orders[i].payme_state = 2) => (orders[i].status = "paid")
            /\ (orders[i].payme_state \in {-1, -2}) => (orders[i].status = "cancelled")

\* The two ways the agreement is lost: an order paid through Click, and an
\* order superseded by a new initiation, each with its Payme state still 1.
C35_PaidInStateOne ==
    \A i \in DOMAIN orders :
        ~(orders[i].payme_transaction_id # NoTx /\ orders[i].status = "paid"
          /\ orders[i].payme_state = 1)

C35_CancelledInStateOne ==
    \A i \in DOMAIN orders :
        ~(orders[i].payme_transaction_id # NoTx /\ orders[i].status = "cancelled"
          /\ orders[i].payme_state = 1)

\* --------------------------------------------------------------------- C36
\* C36: whenever Perform answers with state 2, the stored Payme state of that
\* order is 2 and the stored perform_time equals the reported one, so a Check
\* issued right after reports the same state and the same perform_time; this
\* holds also when the order was paid through the Click protocol.
PerformStored(x, c) ==
    LET call == PerformTransactionCall(x)
        o == call.orders[FindByTx(x)]
        state == Or(o.payme_state, 1)
    IN  call.result.state = 2 =>
            /\ o.payme_state = 2
            /\ o.payme_perform_time = call.result.perform_time
            /\ state = call.result.state
            /\ CheckPerformTime(state, Or(o.payme_perform_time, 0), CheckCreateTime(o, c))
                    = call.result.perform_time

C36_PerformAnswerIsStored ==
    \A x \in TxIds, c \in 1..now : FindByTx(x) # 0 => PerformStored(x, c)

\* The same for the orders that were not paid behind Payme's back: there it
\* holds.
C36_UnlessPaidElsewhere ==
    \A x \in TxIds, c \in 1..now :
        (FindByTx(x) # 0 /\ ~(orders[FindByTx(x)].status = "paid"
                              /\ orders[FindByTx(x)].payme_state # 2))
            => PerformStored(x, c)

\* --------------------------------------------------------------------- C37
\* C37: for every bound transaction in every reachable state, Statement and
\* Check report the same state, create_time, perform_time, cancel_time and
\* reason for that transaction.
SameReport(entry, check) ==
    /\ entry.state = check.state
    /\ entry.create_time = check.create_time
    /\ entry.perform_time = check.perform_time
    /\ entry.cancel_time = check.cancel_time
    /\ entry.reason = check.reason

C37_StatementAgreesWithCheck ==
    \A x \in TxIds, c \in 1..now :
        FindByTx(x) # 0 =>
            SameReport(StatementEntry(FindByTx(x)), CheckTransactionCall(x, c, now).result)

\* State, cancel_time and reason do agree.
C37_StateCancelReasonAgree ==
    \A x \in TxIds, c \in 1..now :
        FindByTx(x) # 0 =>
            LET entry == StatementEntry(FindByTx(x))
                check == CheckTransactionCall(x, c, now).result
            IN  /\ entry.state = check.state
                /\ entry.cancel_time = check.cancel_time
                /\ entry.reason = check.reason

\* The reports differ in create_time only when none above zero is stored, and
\* in perform_time only in state 2 or -2 without a stored perform_time.
C37_DifferOnlyByBackfill ==
    \A x \in TxIds, c \in 1..now :
        FindByTx(x) # 0 =>
            LET o == orders[FindByTx(x)]
                entry == StatementEntry(FindByTx(x))
                check == CheckTransactionCall(x, c, now).result
            IN  /\ entry.create_time # check.create_time
                    => Or(o.payme_create_time, 0) <= 0
                /\ entry.perform_time # check.perform_time
                    => (o.payme_state \in {2, -2} /\ Or(o.payme_perform_time, 0) <= 0)

\* --------------------------------------------------------------------- C38
\* C38: an initiation call that does not return success (already-paid buyer,
\* empty selection, no matching priced item of an active event, or missing
\* merchant configuration) leaves the order store unchanged: no existing
\* order is cancelled and no order is created.
C38_FailedInitiationWritesNothing ==
    \A p \in Buyers, sel \in Selections :
        /\ \A payme_id \in MerchantIds :
                LET call == InitiatePaymentPostCall(payme_id, p, sel)
                IN call.result.status # 200 => call.orders = orders
        /\ \A service_id \in ServiceIds, merchant_id \in MerchantIds :
                LET call == InitiateClickPaymentPostCall(service_id, merchant_id, p, sel)
                IN call.result.status # 200 => call.orders = orders

\* The failures found before the writes: an already-paid buyer, an empty
\* selection and a selection without a priced subject of an active event
\* leave the order store unchanged.
C38_RejectedInitiationWritesNothing ==
    \A p \in Buyers, sel \in Selections :
        /\ \A payme_id \in MerchantIds :
                LET call == InitiatePaymentPostCall(payme_id, p, sel)
                IN call.result.status \in {400, 404} => call.orders = orders
        /\ \A service_id \in ServiceIds, merchant_id \in MerchantIds :
                LET call == InitiateClickPaymentPostCall(service_id, merchant_id, p, sel)
                IN call.result.status \in {400, 404} => call.orders = orders

\* --------------------------------------------------------------------- C39
\* C39: Complete marks an order paid only if a preceding Prepare succeeded on
\* that order with the same Click transaction id as the Complete request
\* carries; a Complete with no preceding Prepare, or with a Click transaction
\* id other than the one bound by Prepare, never marks the order paid.
MarksPaid(call, i) == orders[i].status # "paid" /\ call.orders[i].status = "paid"

C39_CompleteNeedsSamePrepare ==
    \A c \in ClickIds \cup OtherClickIds, i \in DOMAIN orders, pid \in PrepareIds :
        LET call == ClickCallbackCall(c, i, orders[i].total_amount, 1, TRUE, pid, 0)
        IN  MarksPaid(call, i) => orders[i].click_trans_id = c

\* What the code does hold to: Complete marks an order paid only after a
\* Prepare has bound some Click transaction id and a prepare id to it, and
\* the request echoes that prepare id.
C39_CompleteNeedsPrepare ==
    \A c \in ClickIds \cup OtherClickIds, i \in DOMAIN orders, pid \in PrepareIds :
        LET call == ClickCallbackCall(c, i, orders[i].total_amount, 1, TRUE, pid, 0)
        IN  MarksPaid(call, i) =>
                /\ orders[i].click_trans_id # NULL
                /\ orders[i].click_prepare_id = pid
                /\ orders[i].payment_method = "click"

\* A Prepare has bound a Click transaction id to a pending order, and a
\* Complete that carries another Click transaction id and echoes the stored
\* prepare id marks the order paid.
C39_Witness ==
    \E i \in DOMAIN orders, c \in OtherClickIds :
        /\ orders[i].click_trans_id \in ClickIds
        /\ MarksPaid(ClickCallbackCall(c, i, orders[i].total_amount, 1, TRUE,
                                       orders[i].click_prepare_id, 0), i)

\* --------------------------------------------------------------------- C40
\* C40: whenever CheckPerform(order, amount) returns the allow signal, a
\* Create(order, amount, X) with an external id X bound to no order, issued
\* with no other callback in between, succeeds and returns state 1.
Allowed(id, a) == CheckPerformTransactionCall(id, GetAmountTiyin(a)).result.allow

Unbound(x) == \A i \in DOMAIN orders : orders[i].payme_transaction_id # x

C40_AllowedCreateSucceeds ==
    \A id \in OrderIds, a \in JsonAmounts, x \in TxIds, t \in CreateTimes :
        (Allowed(id, a) /\ Unbound(x)) =>
            LET call == CreateTransactionCall(id, GetAmountTiyin(a), x, t)
            IN  /\ call.result.code = NoResp.code
                /\ call.result.state = 1
                /\ call.orders[id].payme_transaction_id = x

\* The same for an order that has no transaction bound yet: there the Create
\* succeeds.
C40_AllowedCreateOnFreeOrder ==
    \A id \in OrderIds, a \in JsonAmounts, x \in TxIds, t \in CreateTimes :
        (Allowed(id, a) /\ Unbound(x) /\ orders[id].payme_transaction_id = NoTx) =>
            LET call == CreateTransactionCall(id, GetAmountTiyin(a), x, t)
            IN  /\ call.result.code = NoResp.code
                /\ call.result.state = 1
                /\ call.orders[id].payme_transaction_id = x

\* CheckPerform allows the payment of a pending order without a transaction,
\* and a Create with an unbound external id binds it in state 1.
C40_Witness ==
    \E id \in DOMAIN orders, x \in TxIds :
        /\ Allowed(id, 1000)
        /\ Unbound(x)
        /\ orders[id].payme_transaction_id = NoTx
        /\ LET call == CreateTransactionCall(id, GetAmountTiyin(1000), x, NULL)
           IN  call.result.state = 1 /\ call.orders[id].payme_state = 1

====
